---- MODULE Spec2Model ----
(***************************************************************************)
(* Round-based orchestration of three vertically-partitioned federated     *)
(* learning protocols of FATE:                                             *)
(*   - hetero boosting, guest and host  (hetero_boosting.py)               *)
(*   - hetero k-means, client and arbiter (hetero_kmeans_*.py)             *)
(*   - hetero FTL guest, three variants and their factory                  *)
(*     (hetero_ftl_guest.py)                                               *)
(* Each protocol has its own variables and its own specification           *)
(* (SpecBoost, SpecKMeans, SpecFTL); the variables of the other protocols  *)
(* stay at their initial value.  SpecKMeansLive is SpecKMeans with every    *)
(* role a fair process; SpecCalc applies the local functions of one        *)
(* k-means round (educl_dist, the arbiter's join, centroid_cal) to drawn    *)
(* inputs; SpecFTLRefit is SpecFTL with fit called a second time on the    *)
(* guest after it returned.                                                *)
(*                                                                         *)
(* get_centroid of the k-means client and centroid_assign of the arbiter   *)
(* are "pass" in the source and return None; a run draws whether each is   *)
(* the method of the source or one a subclass supplies, and whether a      *)
(* client's role is played by the class of the source or by another party  *)
(* at the other end of the arbiter's channels.  A run also draws what the  *)
(* transport, which is not in the source, hands to a get with idx=-1: the  *)
(* value that was remoted, or the list of the values of all instances.     *)
(*                                                                         *)
(* Collaborators that the source only calls (booster fitting, loss,        *)
(* stop condition, convergence function, label checker, local model,       *)
(* encryption) are values drawn from small sets.  The transport is         *)
(* modelled from the channel contract: a receive that asks for a tag       *)
(* takes a message of the same channel name and the same tag.              *)
(***************************************************************************)
EXTENDS Integers, Sequences, FiniteSets, TLC

\* ------------------------------------------------------------------ bounds

\* largest boosting_round a party is configured with
MaxBoostingRound == 2
\* class labels are drawn from 0..MaxLabel
MaxLabel == 2
\* largest max_iter an FTL guest is configured with
MaxIter == 2
\* largest local_iterations an FTL guest is configured with
MaxLocalIterations == 2
\* largest max_iter of a k-means run
MaxKmeansIter == 2
\* a client's tolerance of one round is drawn from 0..MaxTolerance
MaxTolerance == 1
\* fit calls made on one FTL guest object where fit is called again
MaxFitCalls == 2

\* predict calls the caller makes on a guest
MaxPredictCalls == 1

\* ------------------------------------------------------- shared vocabulary

\* a message sent, or a receive issued, without a suffix
NoTag == -1
\* Python's None
None == "None"

VARIABLES
    guest,      \* HeteroBoostingGuest: attributes and position in fit/predict
    host,       \* HeteroBoostingHost: attributes and position in fit/predict
    bnet,       \* stop_flag / booster_dim messages remoted by the guest
    ftl,        \* the FTL model parameters and the guest object GuestFactory builds
    flog,       \* the FTL guest's sends, receives and collaborator calls, in order
    arb,        \* HeteroKmenasArbiter: attributes and position in fit
    cli,        \* HeteroKmeansGuest / HeteroKmeansHost, by role
    knet,       \* k-means messages remoted and not yet taken by a get
    klog,       \* every k-means remote and completed get: channel, party, round, tag
    tag_exact,  \* the transport never hands a message remoted without a suffix
                \* to a get that asks for a round suffix
    calc        \* one k-means round as a computation: the inputs of the local
                \* functions and what they return

boostVars == <<guest, host, bnet>>
ftlVars == <<ftl, flog>>
kmVars == <<arb, cli, knet, klog, tag_exact>>
calcVars == <<calc>>
vars == <<guest, host, bnet, ftl, flog, arb, cli, knet, klog, tag_exact, calc>>

\* ===================================================== HETERO BOOSTING ====

\* consts.PAILLIER, consts.ITERATIVEAFFINE, and names a configuration may carry
PAILLIER == "Paillier"
ITERATIVEAFFINE == "IterativeAffine"
MethodNames == {"PAILLIER", "IterativeAffine", "RSA"}

\* str.lower() on the names above
Lower(s) ==
    CASE s = "Paillier" -> "paillier"
      [] s = "PAILLIER" -> "paillier"
      [] s = "IterativeAffine" -> "iterativeaffine"
      [] s = "RSA" -> "rsa"

CLASSIFICATION == "classification"
REGRESSION == "regression"

\* the label sets a guest's data may carry (ClassifyLabelChecker needs >= 2 classes)
LabelSets == {S \in SUBSET (0..MaxLabel) : Cardinality(S) >= 2}

\* generate_encrypter: the encrypter built, or "raise" for NotImplementedError
generate_encrypter_skipcheck(method) ==
    IF Lower(method) = Lower(ITERATIVEAFFINE) THEN "IterativeAffineEncrypt"
    ELSE "PaillierEncrypt"

generate_encrypter(method) ==
    IF Lower(method) = Lower(PAILLIER) THEN "PaillierEncrypt"
    ELSE IF Lower(method) = Lower(ITERATIVEAFFINE) THEN "IterativeAffineEncrypt"
    ELSE "raise"

\* sorted(classes_): the labels in increasing order
RECURSIVE SortedSeq(_)
SortedSeq(S) ==
    IF S = {} THEN << >>
    ELSE LET m == CHOOSE x \in S : \A y \in S : x <= y
         IN  <<m>> \o SortedSeq(S \ {m})

\* check_label, lines 74-83: every class is an int in [0, len(classes_))
range_from_zero(classes) ==
    \A c \in classes : 0 <= c /\ c < Cardinality(classes)

\* check_label, line 87: dict(zip(self.classes_, range(self.num_classes))), built
\* from the attributes as they are when check_label runs
class_mapping(attr_classes, attr_num_classes) ==
    LET n == IF Len(attr_classes) < attr_num_classes
             THEN Len(attr_classes) ELSE attr_num_classes
    IN  [c \in {attr_classes[i] : i \in 1..n} |->
            (CHOOSE i \in 1..n : attr_classes[i] = c) - 1]

\* check_label, line 88: y.mapValues(lambda _class: class_mapping[_class]);
\* raises KeyError when a label has no entry
remap_labels(y, mapping) ==
    IF y \subseteq DOMAIN mapping
    THEN [raised |-> FALSE, y |-> {mapping[l] : l \in y}]
    ELSE [raised |-> TRUE, y |-> y]

\* check_label: <<num_classes, booster_dim>> from the task type and the label set
check_label_dim_per_class(task_type, labels) ==
    IF task_type = CLASSIFICATION
    THEN <<Cardinality(labels), Cardinality(labels)>>
    ELSE <<1, 1>>

check_label_dim(task_type, labels) ==
    IF task_type = CLASSIFICATION
    THEN LET num_classes == Cardinality(labels)
         IN  <<num_classes, IF num_classes > 2 THEN num_classes ELSE 1>>
    ELSE <<1, 1>>

\* check_label: the label table after the call
check_label_y(task_type, labels, attr_classes, attr_num_classes) ==
    IF task_type = CLASSIFICATION /\ ~range_from_zero(labels)
    THEN remap_labels(labels, class_mapping(attr_classes, attr_num_classes))
    ELSE [raised |-> FALSE, y |-> labels]

\* attributes a party inherits from Boosting.__init__
BoostingAttrs ==
    [ classes_ |-> << >>, num_classes |-> 1, booster_dim |-> 1,
      y |-> None, y_hat |-> None, init_score |-> None,
      boosting_model_list |-> << >>, history_loss |-> << >> ]

\* the tag the guest puts on the stop flag of round num_round
GuestStopFlagSuffix_untagged(num_round) == NoTag

GuestStopFlagSuffix(num_round) == num_round

\* the tag the host asks for when it waits for the stop flag of round num_round
HostStopFlagSuffix_stale(num_round) == 0

HostStopFlagSuffix(num_round) == num_round

\* host loop exit after a round: the received flag
HostShouldStop(stop_flag) == stop_flag

\* boosting_model_list.append(booster_param)
AppendBooster_once_per_round(list, param, class_idx) ==
    IF class_idx = 0 THEN Append(list, param) ELSE list

AppendBooster(list, param, class_idx) == Append(list, param)

\* index of the booster predict loads for (idx, booster_idx)
PredictIndex_dim_major(idx, booster_idx, booster_dim, rounds) ==
    booster_idx * rounds + idx + 1

PredictIndex(idx, booster_idx, booster_dim, rounds) ==
    idx * booster_dim + booster_idx + 1

\* predict: rounds = len(boosting_model_list) // booster_dim
PredictRounds(list, booster_dim) == Len(list) \div booster_dim

\* compute_loss(y_hat, y): a value of the accumulated score (the boosters added up)
RECURSIVE SumScore(_, _)
SumScore(y_hat, n) == IF n = 0 THEN 0 ELSE y_hat[n - 1] + SumScore(y_hat, n - 1)

compute_loss(y_hat, booster_dim) == SumScore(y_hat, booster_dim)

BoostMsg(name, tag, value) == [name |-> name, tag |-> tag, value |-> value]

GuestInit(method, rounds, task, labels) ==
    [ pc |-> "start",
      method |-> method,
      boosting_round |-> rounds,
      task_type |-> task,
      labels |-> labels,              \* labels of data_inst
      y |-> BoostingAttrs.y,
      y_hat |-> BoostingAttrs.y_hat,
      init_score |-> BoostingAttrs.init_score,
      classes_ |-> BoostingAttrs.classes_,
      num_classes |-> BoostingAttrs.num_classes,
      booster_dim |-> BoostingAttrs.booster_dim,
      encrypter |-> None,
      boosting_model_list |-> BoostingAttrs.boosting_model_list,
      history_loss |-> BoostingAttrs.history_loss,
      epoch_idx |-> 0,
      class_idx |-> 0,
      fitted |-> 0,                   \* calls of fit_a_booster
      rounds_done |-> 0,              \* completed rounds
      flags |-> << >>,                \* should_stop of each round, in order
      p_idx |-> 0,
      p_booster_idx |-> 0,
      p_rounds |-> 0,
      loaded |-> << >> ]              \* load_booster calls: <<param, idx, booster_idx>>

HostInit(method, rounds) ==
    [ pc |-> "start",
      method |-> method,
      boosting_round |-> rounds,
      booster_dim |-> BoostingAttrs.booster_dim,
      encrypter |-> None,
      boosting_model_list |-> BoostingAttrs.boosting_model_list,
      epoch_idx |-> 0,
      class_idx |-> 0,
      fitted |-> 0,
      rounds_done |-> 0,
      flags |-> << >>,                \* should_stop of each round, in order
      received |-> 0,                 \* messages received
      p_idx |-> 0,
      p_booster_idx |-> 0,
      p_rounds |-> 0,
      loaded |-> << >> ]

BoostInit ==
    /\ \E m \in MethodNames, r \in 1..MaxBoostingRound,
          t \in {CLASSIFICATION, REGRESSION}, L \in LabelSets :
          guest = GuestInit(m, r, t, L)
    /\ \E m \in MethodNames, r \in 1..MaxBoostingRound :
          host = HostInit(m, r)
    /\ bnet = {}

\* ---- guest fit (lines 119-187)

\* prepare_data, get_label, check_label (raising when the remap has no entry for
\* a label), get_loss_function, sync_booster_dim, get_init_score
G_Setup ==
    /\ guest.pc = "start"
    /\ LET dims == check_label_dim(guest.task_type, guest.labels)
           y1 == check_label_y(guest.task_type, guest.labels,
                               guest.classes_, guest.num_classes)
       IN  IF y1.raised
           THEN /\ guest' = [guest EXCEPT !.pc = "label_error", !.y = guest.labels]
                /\ bnet' = bnet
           ELSE /\ guest' = [guest EXCEPT
                        !.pc = "prepared",
                        !.y = y1.y,
                        !.classes_ = SortedSeq(IF guest.task_type = CLASSIFICATION
                                               THEN guest.labels ELSE {}),
                        !.num_classes = dims[1],
                        !.booster_dim = dims[2],
                        !.y_hat = [d \in 0..(dims[2] - 1) |-> 0],
                        !.init_score = "init_score"]
                /\ bnet' = bnet \cup {BoostMsg("booster_dim", NoTag, dims[2])}
    /\ UNCHANGED <<host, ftlVars, kmVars, calc>>

G_GenerateEncrypter ==
    /\ guest.pc = "prepared"
    /\ LET e == generate_encrypter(guest.method)
       IN  guest' = IF e = "raise"
                    THEN [guest EXCEPT !.pc = "error"]
                    ELSE [guest EXCEPT !.pc = "loop", !.encrypter = e]
    /\ UNCHANGED <<host, bnet, ftlVars, kmVars, calc>>

\* one pass of the class_idx loop body
G_FitABooster ==
    /\ guest.pc = "loop"
    /\ guest.class_idx < guest.booster_dim
    /\ LET param == <<guest.epoch_idx, guest.class_idx>>
       IN  guest' = [guest EXCEPT
                !.boosting_model_list = AppendBooster(@, param, guest.class_idx),
                !.y_hat = [@ EXCEPT ![guest.class_idx] = @ + 1],
                !.fitted = @ + 1,
                !.class_idx = @ + 1]
    /\ UNCHANGED <<host, bnet, ftlVars, kmVars, calc>>

\* compute_loss, history_loss.append, check_stop_condition, sync_stop_flag, break
G_EndRound ==
    /\ guest.pc = "loop"
    /\ guest.class_idx = guest.booster_dim
    /\ \E should_stop \in BOOLEAN :
          /\ bnet' = bnet \cup
                {BoostMsg("stop_flag", GuestStopFlagSuffix(guest.epoch_idx), should_stop)}
          /\ guest' = [guest EXCEPT
                !.history_loss = Append(@, compute_loss(guest.y_hat, guest.booster_dim)),
                !.flags = Append(@, should_stop),
                !.rounds_done = @ + 1,
                !.pc = IF should_stop \/ guest.epoch_idx + 1 >= guest.boosting_round
                       THEN "after_loop" ELSE "loop",
                !.epoch_idx = IF should_stop \/ guest.epoch_idx + 1 >= guest.boosting_round
                              THEN @ ELSE @ + 1,
                !.class_idx = IF should_stop \/ guest.epoch_idx + 1 >= guest.boosting_round
                              THEN @ ELSE 0]
    /\ UNCHANGED <<host, ftlVars, kmVars, calc>>

\* callback_meta with min(history_loss); fit returns
G_Finish ==
    /\ guest.pc = "after_loop"
    /\ guest' = [guest EXCEPT !.pc = "done"]
    /\ UNCHANGED <<host, bnet, ftlVars, kmVars, calc>>

\* ---- guest predict (lines 189-213)

G_PredictStart ==
    /\ guest.pc = "done"
    /\ guest' = [guest EXCEPT
            !.pc = "predict",
            !.p_rounds = PredictRounds(guest.boosting_model_list, guest.booster_dim),
            !.p_idx = 0,
            !.p_booster_idx = 0,
            !.loaded = << >>]
    /\ UNCHANGED <<host, bnet, ftlVars, kmVars, calc>>

G_PredictStep ==
    /\ guest.pc = "predict"
    /\ guest.p_idx < guest.p_rounds
    /\ LET i == PredictIndex(guest.p_idx, guest.p_booster_idx,
                             guest.booster_dim, guest.p_rounds)
           last == guest.p_booster_idx + 1 = guest.booster_dim
       IN  guest' = [guest EXCEPT
                !.loaded = Append(@, <<guest.boosting_model_list[i],
                                       guest.p_idx, guest.p_booster_idx>>),
                !.p_booster_idx = IF last THEN 0 ELSE @ + 1,
                !.p_idx = IF last THEN @ + 1 ELSE @]
    /\ UNCHANGED <<host, bnet, ftlVars, kmVars, calc>>

G_PredictReturn ==
    /\ guest.pc = "predict"
    /\ guest.p_idx >= guest.p_rounds
    /\ guest' = [guest EXCEPT !.pc = "predicted"]
    /\ UNCHANGED <<host, bnet, ftlVars, kmVars, calc>>

\* ---- host fit (lines 259-283)

\* prepare_data, sync_booster_dim
H_SyncBoosterDim ==
    /\ host.pc = "start"
    /\ \E m \in bnet :
          /\ m.name = "booster_dim"
          /\ m.tag = NoTag
          /\ host' = [host EXCEPT !.pc = "prepared",
                                  !.booster_dim = m.value,
                                  !.received = @ + 1]
    /\ UNCHANGED <<guest, bnet, ftlVars, kmVars, calc>>

H_GenerateEncrypter ==
    /\ host.pc = "prepared"
    /\ LET e == generate_encrypter(host.method)
       IN  host' = IF e = "raise"
                   THEN [host EXCEPT !.pc = "error"]
                   ELSE [host EXCEPT !.pc = "loop", !.encrypter = e]
    /\ UNCHANGED <<guest, bnet, ftlVars, kmVars, calc>>

H_FitABooster ==
    /\ host.pc = "loop"
    /\ host.class_idx < host.booster_dim
    /\ LET param == <<host.epoch_idx, host.class_idx>>
       IN  host' = [host EXCEPT
                !.boosting_model_list = AppendBooster(@, param, host.class_idx),
                !.fitted = @ + 1,
                !.class_idx = @ + 1]
    /\ UNCHANGED <<guest, bnet, ftlVars, kmVars, calc>>

\* run_validation, sync_stop_flag, break
H_SyncStopFlag ==
    /\ host.pc = "loop"
    /\ host.class_idx = host.booster_dim
    /\ \E m \in bnet :
          /\ m.name = "stop_flag"
          /\ m.tag = HostStopFlagSuffix(host.epoch_idx)
          /\ LET should_stop == HostShouldStop(m.value)
                 leave == should_stop \/ host.epoch_idx + 1 >= host.boosting_round
             IN  host' = [host EXCEPT
                    !.flags = Append(@, should_stop),
                    !.received = @ + 1,
                    !.rounds_done = @ + 1,
                    !.pc = IF leave THEN "done" ELSE "loop",
                    !.epoch_idx = IF leave THEN @ ELSE @ + 1,
                    !.class_idx = IF leave THEN @ ELSE 0]
    /\ UNCHANGED <<guest, bnet, ftlVars, kmVars, calc>>

\* ---- host predict (lines 285-300)

H_PredictStart ==
    /\ host.pc = "done"
    /\ host' = [host EXCEPT
            !.pc = "predict",
            !.p_rounds = PredictRounds(host.boosting_model_list, host.booster_dim),
            !.p_idx = 0,
            !.p_booster_idx = 0,
            !.loaded = << >>]
    /\ UNCHANGED <<guest, bnet, ftlVars, kmVars, calc>>

H_PredictStep ==
    /\ host.pc = "predict"
    /\ host.p_idx < host.p_rounds
    /\ LET i == PredictIndex(host.p_idx, host.p_booster_idx,
                             host.booster_dim, host.p_rounds)
           last == host.p_booster_idx + 1 = host.booster_dim
       IN  host' = [host EXCEPT
                !.loaded = Append(@, <<host.boosting_model_list[i],
                                      host.p_idx, host.p_booster_idx>>),
                !.p_booster_idx = IF last THEN 0 ELSE @ + 1,
                !.p_idx = IF last THEN @ + 1 ELSE @]
    /\ UNCHANGED <<guest, bnet, ftlVars, kmVars, calc>>

H_PredictReturn ==
    /\ host.pc = "predict"
    /\ host.p_idx >= host.p_rounds
    /\ host' = [host EXCEPT !.pc = "predicted"]
    /\ UNCHANGED <<guest, bnet, ftlVars, kmVars, calc>>

BoostNext ==
    \/ G_Setup
    \/ G_GenerateEncrypter
    \/ G_FitABooster
    \/ G_EndRound
    \/ G_Finish
    \/ G_PredictStart
    \/ G_PredictStep
    \/ G_PredictReturn
    \/ H_SyncBoosterDim
    \/ H_GenerateEncrypter
    \/ H_FitABooster
    \/ H_SyncStopFlag
    \/ H_PredictStart
    \/ H_PredictStep
    \/ H_PredictReturn



\* ===================================================== HETERO FTL GUEST ===

HOST == "host"
ARBITER == "arbiter"

\* values of ftl_model_param.enc_ftl a configuration may carry
EncFtlNames == {"enc_ftl", "dct_enc_ftl", "plain_ftl"}

\* GuestFactory.create: the class of the guest built, or "raise"
GuestFactory_create_default_enc(is_encrypt, enc_ftl) ==
    IF is_encrypt
    THEN IF enc_ftl = "dct_enc_ftl" THEN "HeteroDecentralizedEncryptFTLGuest"
         ELSE "HeteroEncryptFTLGuest"
    ELSE "HeteroPlainFTLGuest"

GuestFactory_create_swapped(is_encrypt, enc_ftl) ==
    IF is_encrypt
    THEN IF enc_ftl = "dct_enc_ftl" THEN "HeteroEncryptFTLGuest"
         ELSE IF enc_ftl = "enc_ftl" THEN "HeteroDecentralizedEncryptFTLGuest"
         ELSE "raise"
    ELSE "HeteroPlainFTLGuest"

GuestFactory_create(is_encrypt, enc_ftl) ==
    IF is_encrypt
    THEN IF enc_ftl = "dct_enc_ftl" THEN "HeteroDecentralizedEncryptFTLGuest"
         ELSE IF enc_ftl = "enc_ftl" THEN "HeteroEncryptFTLGuest"
         ELSE "raise"
    ELSE "HeteroPlainFTLGuest"

\* transfer_variable.generate_transferid(variable, n_iter_): the round is the tag
TransferId(n_iter) == n_iter

\* the tag of the messages of one local iteration (generate_transferid gets n_iter_)
LocalTransferId(n_iter, local_iter) == n_iter

Send(name, tag, role) == [op |-> "send", name |-> name, tag |-> tag, role |-> role]
Recv(name, tag) == [op |-> "recv", name |-> name, tag |-> tag, role |-> "any"]
Call(name, tag) == [op |-> "call", name |-> name, tag |-> tag, role |-> "self"]

\* prepare_data (lines 55-73)
prepare_data_log ==
    << Send("guest_sample_indexes", NoTag, HOST), Recv("host_sample_indexes", NoTag) >>

\* the centralized guest's key fetch before its loop (lines 180-183)
paillier_pubkey_log == << Recv("paillier_pubkey", NoTag) >>

\* prepare_encryption_key_pair (lines 268-281)
prepare_encryption_key_pair_log_resend(n_iter) ==
    << Call("generate_encryption_key_pair", NoTag),
       Send("guest_public_key", TransferId(n_iter), HOST),
       Recv("host_public_key", TransferId(n_iter)),
       Send("guest_public_key", TransferId(n_iter), HOST) >>

prepare_encryption_key_pair_log(n_iter) ==
    << Call("generate_encryption_key_pair", NoTag),
       Send("guest_public_key", TransferId(n_iter), HOST),
       Recv("host_public_key", TransferId(n_iter)) >>

\* is_stop after "if self.converge_func.is_converge(loss): is_stop = True"
StopFlag_unset(converged, is_stop) == is_stop

StopFlag(converged, is_stop) == IF converged THEN TRUE ELSE is_stop

\* what the guest remotes as masked_enc_guest_gradients (line 366)
GradientsPayload_unmasked(masked, encrypted) == encrypted

GradientsPayload(masked, encrypted) == masked

\* what the guest remotes as masked_enc_loss (line 375)
LossPayload(masked, encrypted) == masked

\* a mask, named by what it blinds and by the local iteration that generated it
Mask(kind, n_iter, local_iter) == <<kind, n_iter, local_iter>>

\* the loss mask is removed in the iterations where the masked loss came back
RemovesLossMask(local_iter) == local_iter = 0

\* the masked loss is sent and awaited in the first local iteration only
SendsLoss(local_iter) == local_iter = 0

\* the role the centralized guest remotes encrypt_guest_gradient and encrypt_loss
\* to (lines 220 and 234)
DecryptionRole_host == HOST

DecryptionRole == ARBITER

\* compute_components runs unless this is the last local iteration (line 432)
ComputesComponents_always(local_iter, local_iterations) == TRUE

ComputesComponents(local_iter, local_iterations) ==
    local_iter # local_iterations - 1

\* cleartexts the local model encrypts, and the random masks
Values == {0, 3}
MaskValues == {1, 2}
ValueLists == {<<a, b>> : a \in Values, b \in Values}
MaskLists == {<<a, b>> : a \in MaskValues, b \in MaskValues}

\* a ciphertext under the host's key
Encrypt(v) == [enc |-> v]

\* add_random_mask: the mask is added under the encryption; <<masked, mask>>
add_random_mask(value, mask) == <<Encrypt(value.enc + mask), mask>>

\* add_random_mask_for_list_of_values: one mask per value
add_random_mask_for_list_of_values(values, masks) ==
    << [i \in DOMAIN values |-> add_random_mask(values[i], masks[i])[1]], masks >>

\* the n_iter_ a fit call begins its loop with: fit never assigns self.n_iter_
\* before "while self.n_iter_ < self.max_iter" (lines 127, 196, 303)
FitEntryRound_reset(n_iter) == 0

FitEntryRound(n_iter) == n_iter

\* a guest on which the caller invokes fit at most fit_calls times
FtlInitCalls(fit_calls) ==
    /\ \E e \in BOOLEAN, v \in EncFtlNames, mi \in 1..MaxIter,
          li \in 0..MaxLocalIterations :
          ftl = [ pc |-> "param",
                  fit_calls |-> fit_calls,  \* fit calls the caller makes
                  fits |-> 0,               \* fit calls begun so far
                  fit_n_iter |-> 0,         \* n_iter_ when the running call began
                  fit_log |-> 0,            \* Len(flog) when the running call began
                  predicts |-> 0,           \* predict calls made so far
                  is_encrypt |-> e,         \* ftl_model_param
                  enc_ftl |-> v,
                  max_iter |-> mi,
                  local_iterations |-> li,
                  class |-> None,           \* class of the guest object
                  created |-> 0,            \* guest objects constructed
                  n_iter_ |-> None,
                  is_stop |-> FALSE,
                  loss |-> None,
                  local_iter |-> 0,
                  gradients_masks |-> None,
                  loss_mask |-> None,
                  masks |-> << >>,          \* every mask generated, in order
                  removed |-> << >>,        \* every mask removal, in order
                  gradients |-> << >>,      \* cleartext of encrypt_guest_gradients
                  loss_plain |-> 0,         \* cleartext of encrypt_loss
                  mask_values |-> << >>,    \* gradients_masks (the numbers)
                  loss_mask_value |-> 0,    \* loss_mask (the number)
                  masked_enc_guest_gradients |-> << >>,
                  masked_enc_loss |-> Encrypt(0),
                  sent_gradients |-> << >>, \* payload of masked_enc_guest_gradients
                  sent_loss |-> Encrypt(0), \* payload of masked_enc_loss
                  converged |-> << >>,      \* is_converge(loss) of each round
                  flags |-> << >> ]         \* the stop flag remoted in each round
    /\ flog = << >>

\* one fit call on the guest the factory built
FtlInit == FtlInitCalls(1)

\* fit is called again on the same guest object after it returned
FtlRefitInit == FtlInitCalls(MaxFitCalls)

\* fit can be entered on a guest that was built or whose last fit call returned
FitCallable ==
    /\ ftl.pc \in {"created", "done"}
    /\ ftl.fits < ftl.fit_calls

\* the guest at the entry of fit
FitEntry ==
    [ftl EXCEPT !.fits = @ + 1,
                !.n_iter_ = FitEntryRound(@),
                !.fit_n_iter = FitEntryRound(ftl.n_iter_),
                !.fit_log = Len(flog)]

\* GuestFactory.create and the guest's __init__ (lines 41-50, 469-491)
F_Create ==
    /\ ftl.pc = "param"
    /\ LET c == GuestFactory_create(ftl.is_encrypt, ftl.enc_ftl)
       IN  ftl' = IF c = "raise"
                  THEN [ftl EXCEPT !.pc = "config_error"]
                  ELSE [ftl EXCEPT !.pc = "created", !.class = c,
                                   !.created = @ + 1, !.n_iter_ = 0]
    /\ UNCHANGED <<flog, boostVars, kmVars, calc>>

\* predict (lines 75-95): the host's host_prob is taken (line 82, no round in
\* the tag), guest_model.predict computes pred_prob, which is remoted to the
\* host (line 90); None is returned and n_iter_ is left as it is. The caller
\* may predict on a guest that was built or whose fit has returned.
F_Predict ==
    /\ ftl.pc \in {"created", "done"}
    /\ ftl.predicts < MaxPredictCalls
    /\ ftl' = [ftl EXCEPT !.predicts = @ + 1]
    /\ flog' = flog \o <<Recv("host_prob", NoTag), Send("pred_prob", NoTag, HOST)>>
    /\ UNCHANGED <<boostVars, kmVars, calc>>

\* Every blocking _do_get begins an action: the guest waits there until the
\* other party's message has arrived, and what it did before the get is done.

\* ---- HeteroPlainFTLGuest.fit (lines 113-161)

\* fit is entered; prepare_data remotes the guest's sample indexes
P_Start ==
    /\ UNCHANGED <<boostVars, kmVars, calc>>
    /\ FitCallable
    /\ ftl.class = "HeteroPlainFTLGuest"
    /\ ftl' = [FitEntry EXCEPT !.pc = "wait_host_sample_indexes"]
    /\ flog' = Append(flog, prepare_data_log[1])

\* the host's sample indexes arrive; set_batch; is_stop = False
P_RecvSampleIndexes ==
    /\ UNCHANGED <<boostVars, kmVars, calc>>
    /\ ftl.pc = "wait_host_sample_indexes"
    /\ ftl.class = "HeteroPlainFTLGuest"
    /\ ftl' = [ftl EXCEPT !.pc = "loop", !.is_stop = FALSE]
    /\ flog' = Append(flog, prepare_data_log[2])

P_Exchange ==
    /\ UNCHANGED <<boostVars, kmVars, calc>>
    /\ ftl.pc = "loop"
    /\ ftl.class = "HeteroPlainFTLGuest"
    /\ ftl.n_iter_ < ftl.max_iter
    /\ ftl' = [ftl EXCEPT !.pc = "wait_host_component_list"]
    /\ flog' = Append(flog, Send("guest_component_list", TransferId(ftl.n_iter_), HOST))

P_RecvComponents ==
    /\ UNCHANGED <<boostVars, kmVars, calc>>
    /\ ftl.pc = "wait_host_component_list"
    /\ ftl.class = "HeteroPlainFTLGuest"
    /\ ftl' = [ftl EXCEPT !.pc = "decide"]
    /\ flog' = Append(flog, Recv("host_component_list", TransferId(ftl.n_iter_)))

P_Decide ==
    /\ UNCHANGED <<boostVars, kmVars, calc>>
    /\ ftl.pc = "decide"
    /\ ftl.class = "HeteroPlainFTLGuest"
    /\ \E loss \in {"loss"}, converged \in BOOLEAN :
          LET stop == StopFlag(converged, ftl.is_stop)
          IN  /\ ftl' = [ftl EXCEPT !.loss = loss,
                                    !.is_stop = stop,
                                    !.converged = Append(@, converged),
                                    !.flags = Append(@, stop),
                                    !.n_iter_ = @ + 1,
                                    !.pc = IF stop THEN "break" ELSE "loop"]
              /\ flog' = flog \o << Call("is_converge", TransferId(ftl.n_iter_)),
                                    Send("is_stopped", TransferId(ftl.n_iter_), HOST) >>

\* ---- HeteroEncryptFTLGuest.fit (lines 178-248)

\* fit is entered; the arbiter's public key arrives; prepare_data remotes the
\* guest's sample indexes
E_Start ==
    /\ UNCHANGED <<boostVars, kmVars, calc>>
    /\ FitCallable
    /\ ftl.class = "HeteroEncryptFTLGuest"
    /\ ftl' = [FitEntry EXCEPT !.pc = "wait_host_sample_indexes"]
    /\ flog' = flog \o paillier_pubkey_log \o << prepare_data_log[1] >>

E_RecvSampleIndexes ==
    /\ UNCHANGED <<boostVars, kmVars, calc>>
    /\ ftl.pc = "wait_host_sample_indexes"
    /\ ftl.class = "HeteroEncryptFTLGuest"
    /\ ftl' = [ftl EXCEPT !.pc = "loop"]
    /\ flog' = Append(flog, prepare_data_log[2])

E_Exchange ==
    /\ UNCHANGED <<boostVars, kmVars, calc>>
    /\ ftl.pc = "loop"
    /\ ftl.class = "HeteroEncryptFTLGuest"
    /\ ftl.n_iter_ < ftl.max_iter
    /\ ftl' = [ftl EXCEPT !.pc = "wait_host_component_list"]
    /\ flog' = Append(flog, Send("guest_component_list", TransferId(ftl.n_iter_), HOST))

E_RecvComponents ==
    /\ UNCHANGED <<boostVars, kmVars, calc>>
    /\ ftl.pc = "wait_host_component_list"
    /\ ftl.class = "HeteroEncryptFTLGuest"
    /\ ftl' = [ftl EXCEPT !.pc = "gradients"]
    /\ flog' = Append(flog, Recv("host_component_list", TransferId(ftl.n_iter_)))

\* the encrypted gradients go to the party that decrypts them
E_Gradients ==
    /\ UNCHANGED <<boostVars, kmVars, calc>>
    /\ ftl.pc = "gradients"
    /\ ftl' = [ftl EXCEPT !.pc = "wait_decrypt_guest_gradient"]
    /\ flog' = Append(flog, Send("encrypt_guest_gradient", TransferId(ftl.n_iter_),
                                 DecryptionRole))

\* the decrypted gradients arrive and are applied (lines 223-228)
E_RecvGradients ==
    /\ UNCHANGED <<boostVars, kmVars, calc>>
    /\ ftl.pc = "wait_decrypt_guest_gradient"
    /\ ftl' = [ftl EXCEPT !.pc = "loss"]
    /\ flog' = flog \o << Recv("decrypt_guest_gradient", TransferId(ftl.n_iter_)),
                          Call("receive_gradients", TransferId(ftl.n_iter_)) >>

\* the encrypted loss goes to the party that decrypts it
E_Loss ==
    /\ UNCHANGED <<boostVars, kmVars, calc>>
    /\ ftl.pc = "loss"
    /\ ftl' = [ftl EXCEPT !.pc = "wait_is_encrypted_ftl_stopped"]
    /\ flog' = Append(flog, Send("encrypt_loss", TransferId(ftl.n_iter_),
                                 DecryptionRole))

\* the arbiter's decision arrives (lines 237-245)
E_RecvStop ==
    /\ UNCHANGED <<boostVars, kmVars, calc>>
    /\ ftl.pc = "wait_is_encrypted_ftl_stopped"
    /\ \E is_stop \in BOOLEAN :
          /\ ftl' = [ftl EXCEPT !.is_stop = is_stop,
                                !.n_iter_ = @ + 1,
                                !.pc = IF is_stop THEN "break" ELSE "loop"]
          /\ flog' = Append(flog, Recv("is_encrypted_ftl_stopped",
                                       TransferId(ftl.n_iter_)))

\* ---- HeteroDecentralizedEncryptFTLGuest.fit (lines 283-462)

\* fit is entered; prepare_encryption_key_pair generates the key pair and
\* remotes the public key
D_Start ==
    /\ UNCHANGED <<boostVars, kmVars, calc>>
    /\ FitCallable
    /\ ftl.class = "HeteroDecentralizedEncryptFTLGuest"
    /\ ftl' = [FitEntry EXCEPT !.pc = "wait_host_public_key"]
    /\ flog' = flog \o SubSeq(prepare_encryption_key_pair_log(ftl.n_iter_), 1, 2)

\* the host's public key arrives; prepare_data remotes the sample indexes
D_RecvHostKey ==
    /\ UNCHANGED <<boostVars, kmVars, calc>>
    /\ ftl.pc = "wait_host_public_key"
    /\ LET keys == prepare_encryption_key_pair_log(ftl.n_iter_)
       IN  flog' = flog \o SubSeq(keys, 3, Len(keys)) \o << prepare_data_log[1] >>
    /\ ftl' = [ftl EXCEPT !.pc = "wait_host_sample_indexes"]

\* the host's sample indexes arrive; set_batch and the keys; is_stop = False
D_RecvSampleIndexes ==
    /\ UNCHANGED <<boostVars, kmVars, calc>>
    /\ ftl.pc = "wait_host_sample_indexes"
    /\ ftl.class = "HeteroDecentralizedEncryptFTLGuest"
    /\ ftl' = [ftl EXCEPT !.pc = "loop", !.is_stop = FALSE]
    /\ flog' = Append(flog, prepare_data_log[2])

\* stage 1: the guest's components are sent
D_Exchange ==
    /\ UNCHANGED <<boostVars, kmVars, calc>>
    /\ ftl.pc = "loop"
    /\ ftl.class = "HeteroDecentralizedEncryptFTLGuest"
    /\ ftl.n_iter_ < ftl.max_iter
    /\ ftl' = [ftl EXCEPT !.pc = "wait_host_component_list"]
    /\ flog' = Append(flog, Send("guest_component_list", TransferId(ftl.n_iter_), HOST))

\* stage 2: the host's components arrive; loss = None
D_RecvComponents ==
    /\ UNCHANGED <<boostVars, kmVars, calc>>
    /\ ftl.pc = "wait_host_component_list"
    /\ ftl.class = "HeteroDecentralizedEncryptFTLGuest"
    /\ ftl' = [ftl EXCEPT !.pc = "local", !.loss = None, !.local_iter = 0]
    /\ flog' = Append(flog, Recv("host_component_list", TransferId(ftl.n_iter_)))

\* compute_gradients, the two masks, and the masked values sent to the host
D_LocalMaskSend ==
    /\ UNCHANGED <<boostVars, kmVars, calc>>
    /\ ftl.pc = "local"
    /\ ftl.local_iter < ftl.local_iterations
    /\ \E grads \in ValueLists, loss \in Values,
          gmasks \in MaskLists, lmask \in MaskValues :
       LET gm == Mask("gradients", ftl.n_iter_, ftl.local_iter)
           lm == Mask("loss", ftl.n_iter_, ftl.local_iter)
           tag == LocalTransferId(ftl.n_iter_, ftl.local_iter)
           encrypt_guest_gradients == [i \in DOMAIN grads |-> Encrypt(grads[i])]
           mg == add_random_mask_for_list_of_values(encrypt_guest_gradients, gmasks)
           ml == add_random_mask(Encrypt(loss), lmask)
       IN  /\ ftl' = [ftl EXCEPT !.pc = "stage3",
                                 !.gradients_masks = gm,
                                 !.loss_mask = lm,
                                 !.masks = @ \o <<gm, lm>>,
                                 !.gradients = grads,
                                 !.loss_plain = loss,
                                 !.masked_enc_guest_gradients = mg[1],
                                 !.mask_values = mg[2],
                                 !.masked_enc_loss = ml[1],
                                 !.loss_mask_value = ml[2],
                                 !.sent_gradients =
                                     GradientsPayload(mg[1], encrypt_guest_gradients),
                                 !.sent_loss =
                                     IF SendsLoss(ftl.local_iter)
                                     THEN LossPayload(ml[1], Encrypt(loss))
                                     ELSE @]
           /\ flog' = flog
                \o << Call("compute_gradients", tag),
                      Send("masked_enc_guest_gradients", tag, HOST) >>
                \o (IF SendsLoss(ftl.local_iter)
                    THEN << Send("masked_enc_loss", TransferId(ftl.n_iter_), HOST) >>
                    ELSE << >>)

\* stage 3: the host's masked gradients arrive, are decrypted and sent back
D_LocalHostGradients ==
    /\ UNCHANGED <<boostVars, kmVars, calc>>
    /\ ftl.pc = "stage3"
    /\ LET tag == LocalTransferId(ftl.n_iter_, ftl.local_iter)
       IN  /\ ftl' = [ftl EXCEPT !.pc = "stage4"]
           /\ flog' = flog \o << Recv("masked_enc_host_gradients", tag),
                                 Send("masked_dec_host_gradients", tag, HOST) >>

\* the end of a local iteration: compute_components unless it is the last
EndLocalIteration(g) ==
    [g EXCEPT !.pc = "local", !.local_iter = @ + 1]

EndLocalIterationLog ==
    IF ComputesComponents(ftl.local_iter, ftl.local_iterations)
    THEN << Call("compute_components", LocalTransferId(ftl.n_iter_, ftl.local_iter)) >>
    ELSE << >>

\* stage 4: the guest's masked gradients come back, are unmasked with the masks
\* of this local iteration (line 409: what is recorded is which mask is
\* removed, the arithmetic of the helper is not in the source) and applied;
\* in the first local iteration the guest then waits for the masked loss
D_LocalUnmask ==
    /\ UNCHANGED <<boostVars, kmVars, calc>>
    /\ ftl.pc = "stage4"
    /\ LET tag == LocalTransferId(ftl.n_iter_, ftl.local_iter)
           applied == [ftl EXCEPT !.removed = @ \o <<ftl.gradients_masks>>]
       IN  /\ ftl' = IF RemovesLossMask(ftl.local_iter)
                     THEN [applied EXCEPT !.pc = "wait_masked_dec_loss"]
                     ELSE EndLocalIteration(applied)
           /\ flog' = flog
                \o << Recv("masked_dec_guest_gradients", tag),
                      Call("receive_gradients", tag) >>
                \o (IF RemovesLossMask(ftl.local_iter)
                    THEN << >> ELSE EndLocalIterationLog)

\* the masked decrypted loss arrives and its mask is removed (lines 421-433)
D_LocalRecvLoss ==
    /\ UNCHANGED <<boostVars, kmVars, calc>>
    /\ ftl.pc = "wait_masked_dec_loss"
    /\ LET unmasked == [ftl EXCEPT
                    !.removed = @ \o <<ftl.loss_mask>>,
                    !.loss = "loss"]
       IN  /\ ftl' = EndLocalIteration(unmasked)
           /\ flog' = flog
                \o << Recv("masked_dec_loss", TransferId(ftl.n_iter_)) >>
                \o EndLocalIterationLog

\* stage 5: convergence on the loss, stop signal to the host
D_Decide ==
    /\ UNCHANGED <<boostVars, kmVars, calc>>
    /\ ftl.pc = "local"
    /\ ftl.local_iter >= ftl.local_iterations
    /\ \E converged \in BOOLEAN :
          LET stop == StopFlag(converged, ftl.is_stop)
          IN  /\ ftl' = [ftl EXCEPT !.is_stop = stop,
                                    !.converged = Append(@, converged),
                                    !.flags = Append(@, stop),
                                    !.n_iter_ = @ + 1,
                                    !.pc = IF stop THEN "break" ELSE "loop"]
              /\ flog' = flog
                    \o << Call("is_converge", TransferId(ftl.n_iter_)),
                          Send("is_decentralized_enc_ftl_stopped",
                               TransferId(ftl.n_iter_), HOST) >>

\* the loop is left, by break or because n_iter_ reached max_iter; fit returns
FitLeavesLoop ==
    IF ftl.pc = "break" THEN TRUE
    ELSE IF ftl.pc = "loop" THEN ftl.n_iter_ >= ftl.max_iter
    ELSE FALSE

F_Return ==
    /\ FitLeavesLoop
    /\ ftl' = [ftl EXCEPT !.pc = "done"]
    /\ UNCHANGED <<flog, boostVars, kmVars, calc>>

FtlNext ==
    \/ F_Create
    \/ P_Start
    \/ P_RecvSampleIndexes
    \/ P_Exchange
    \/ P_RecvComponents
    \/ P_Decide
    \/ E_Start
    \/ E_RecvSampleIndexes
    \/ E_Exchange
    \/ E_RecvComponents
    \/ E_Gradients
    \/ E_RecvGradients
    \/ E_Loss
    \/ E_RecvStop
    \/ D_Start
    \/ D_RecvHostKey
    \/ D_RecvSampleIndexes
    \/ D_Exchange
    \/ D_RecvComponents
    \/ D_LocalMaskSend
    \/ D_LocalHostGradients
    \/ D_LocalUnmask
    \/ D_LocalRecvLoss
    \/ D_Decide
    \/ F_Return
    \/ F_Predict



\* ====================================================== HETERO K-MEANS ====

GUEST == "guest"
Clients == {GUEST, HOST}

\* numpy's inf, above every tolerance of the model
inf == 1000

\* the named channel a client binds to (lines 95-106)
client_dist(c) == IF c = GUEST THEN "guest_dist" ELSE "host_dist"
client_tol(c) == IF c = GUEST THEN "guest_tol" ELSE "host_tol"

\* the sample keys of the parties' tables
Samples == {1, 2}

\* a Python list (or a table keyed by the samples), or None
PyList(items) == [is_none |-> FALSE, items |-> items]
PyNone == [is_none |-> TRUE, items |-> << >>]

\* who plays a client's role: the class as it is in the source, a subclass of it
\* that supplies get_centroid, or a party at the other end of the channels that
\* is not this class
ClientKinds == {"shipped", "subclass", "peer"}

\* get_centroid (lines 45-46) is "pass" and returns None unless a subclass
\* supplies it
GetCentroidIsNone(kind) == kind = "shipped"

\* dist_all of a client: for every sample the list educl_dist returns, one
\* distance per centroid
DistTables == { [u \in Samples |-> IF u = 1 THEN <<1, 4>> ELSE <<3, 2>>],
                [u \in Samples |-> <<1, 1>>] }

\* lambda v1, v2: v1 + v2 on two lists educl_dist returned (line 40)
join_add(v1, v2) == v1 \o v2

\* p1.join(p2, lambda v1, v2: v1 + v2): per sample key
dist_sum(p1, p2) == [u \in DOMAIN p1 |-> join_add(p1[u], p2[u])]

\* the assignment strategy: for every sample the index, from 0, of its
\* smallest (first on ties) total distance
centroid_assign(sums) ==
    [u \in DOMAIN sums |->
        (CHOOSE i \in DOMAIN sums[u] :
            /\ \A j \in DOMAIN sums[u] : sums[u][i] <= sums[u][j]
            /\ \A j \in 1..(i - 1) : sums[u][j] > sums[u][i]) - 1]

\* self.centroid_assign(dist_sum) (arbiter line 41): the method of the source
\* (lines 31-32) is "pass" and returns None; a subclass supplies the strategy
arbiter_centroid_assign(overridden, sums) ==
    IF overridden THEN PyList(centroid_assign(sums)) ELSE PyNone

\* host_dist.get(idx=-1, ...) (arbiter line 39): the transport, which is not in
\* the source, hands the value that was remoted, or the list of the values of
\* all instances of the role (here one)
get_all(value, as_list) == IF as_list THEN <<value>> ELSE value

\* p1.join(p2, lambda v1, v2: v1 + v2) (arbiter line 40): the join of two
\* tables; when the get of line 39 handed a list, the join raises
join_tables(p1, p2, p2_is_list) ==
    IF p2_is_list
    THEN [raised |-> TRUE, table |-> << >>]
    ELSE [raised |-> FALSE, table |-> dist_sum(p1, p2)]

\* suffix=(self.n_iter_,) and suffix=self.n_iter_: the round as the tag
RoundSuffix(n_iter) == n_iter

\* the suffix of the arbiter's arbiter_tol.remote (lines 48-49): none is given
ArbiterTolSuffix(n_iter) == NoTag

\* the client's loop exit on the received arbiter_tol (line 89)
ClientBreaks(tol_tag) == tol_tag = 1

\* the arbiter's break (line 50) and loop condition (line 37)
ArbiterBreaks(n, tol) == n < tol
ArbiterLoops(n_iter, max_iter, n, tol) == n_iter < max_iter /\ n > tol

\* the transport: a get asking for req_tag takes a message tagged msg_tag
Deliverable(msg_tag, req_tag) ==
    IF msg_tag = req_tag THEN TRUE
    ELSE IF msg_tag = NoTag THEN ~tag_exact
    ELSE FALSE

KmMsg(name, to, tag, value) == [name |-> name, to |-> to, tag |-> tag, value |-> value]
KmEvent(op, name, party, round, tag) ==
    [op |-> op, name |-> name, party |-> party, round |-> round, tag |-> tag]

\* the messages a get(name, suffix) of party `to` can take
Gettable(name, to, req_tag) ==
    {m \in knet : m.name = name /\ m.to = to /\ Deliverable(m.tag, req_tag)}

KmInit ==
    /\ \E mi \in 0..MaxKmeansIter, tol \in 1..(MaxTolerance + 1),
          overridden \in BOOLEAN, as_list \in BOOLEAN,
          kinds \in [Clients -> ClientKinds] :
          /\ arb = [ pc |-> "loop", n_iter_ |-> 0, max_iter |-> mi, tol |-> tol,
                     overridden |-> overridden,      \* centroid_assign supplied
                     all_as_list |-> as_list,        \* get(idx=-1) hands a list
                     n |-> inf, tol1 |-> 0, broke |-> FALSE,
                     p1 |-> << >>, p2 |-> << >>,      \* the tables of the two gets
                     new_centroid |-> PyList(<< >>) ] \* what was broadcast last
          /\ cli = [ c \in Clients |->
                     [ pc |-> IF kinds[c] = "peer" THEN "peer" ELSE "start",
                       kind |-> kinds[c],
                       n_iter_ |-> 0, max_iter |-> mi,
                       centroids |-> None,      \* the local variable of fit
                       dist_centroids |-> None, \* centroid_list given to educl_dist
                       centroid_list |-> None ] ] \* the attribute
    /\ knet = {}
    /\ klog = {}
    /\ tag_exact \in BOOLEAN

\* ---- HeteroKmeansClient.fit (lines 71-90)

\* _abnormal_detection, get_centroid
C_Start(c) ==
    /\ cli[c].pc = "start"
    /\ cli' = [cli EXCEPT ![c].pc = "loop", ![c].centroids = 0]
    /\ UNCHANGED <<arb, knet, klog, tag_exact, boostVars, ftlVars, calc>>

\* educl_dist over the samples, client_dist.remote; with centroids None the
\* loop of educl_dist raises TypeError and nothing is remoted
C_SendDist(c) ==
    /\ cli[c].pc = "loop"
    /\ cli[c].n_iter_ < cli[c].max_iter
    /\ IF GetCentroidIsNone(cli[c].kind)
       THEN /\ cli' = [cli EXCEPT ![c].pc = "error",
                                  ![c].dist_centroids = cli[c].centroids]
            /\ UNCHANGED <<knet, klog>>
       ELSE /\ \E dist_all \in DistTables :
               LET tag == RoundSuffix(cli[c].n_iter_)
               IN  /\ knet' = knet \cup {KmMsg(client_dist(c), ARBITER, tag, dist_all)}
                   /\ klog' = klog \cup
                         {KmEvent("send", client_dist(c), c, cli[c].n_iter_, tag)}
            /\ cli' = [cli EXCEPT ![c].pc = "wait_cluster",
                                  ![c].dist_centroids = cli[c].centroids]
    /\ UNCHANGED <<arb, tag_exact, boostVars, ftlVars, calc>>

\* cluster_result.get, then centroid_cal and the client's tolerance: on a None
\* assignment cluster_result.filter raises (line 66), on a table the division
\* by a.count or get_sum raises (line 67), and with k = 0 the undefined np does
\* (line 83); fit never reaches line 84
C_RecvCluster(c) ==
    /\ cli[c].pc = "wait_cluster"
    /\ LET tag == RoundSuffix(cli[c].n_iter_)
       IN  \E m \in Gettable("cluster_result", c, tag) :
              /\ knet' = knet \ {m}
              /\ klog' = klog \cup
                    {KmEvent("recv", "cluster_result", c, cli[c].n_iter_, tag)}
              /\ cli' = [cli EXCEPT ![c].pc = "error"]
    /\ UNCHANGED <<arb, tag_exact, boostVars, ftlVars, calc>>

\* the while condition fails: fit returns
C_Return(c) ==
    /\ cli[c].pc = "loop"
    /\ cli[c].n_iter_ >= cli[c].max_iter
    /\ cli' = [cli EXCEPT ![c].pc = "done"]
    /\ UNCHANGED <<arb, knet, klog, tag_exact, boostVars, ftlVars, calc>>

\* ---- a party that is not the client class of the source

\* the channel and tag of the get the arbiter is blocked in, if it waits for c
ArbiterAwaits(c) ==
    IF arb.pc = "loop" /\ ArbiterLoops(arb.n_iter_, arb.max_iter, arb.n, arb.tol)
          /\ c = GUEST
    THEN "dist"
    ELSE IF arb.pc = "wait_host_dist" /\ c = HOST THEN "dist"
    ELSE IF arb.pc = "wait_guest_tol" /\ c = GUEST THEN "tol"
    ELSE IF arb.pc = "wait_host_tol" /\ c = HOST THEN "tol"
    ELSE "nothing"

\* the party supplies the distance table or the tolerance of the round that the
\* arbiter's get asks for
N_PeerSend(c) ==
    /\ cli[c].kind = "peer"
    /\ LET tag == RoundSuffix(arb.n_iter_)
       IN  \/ /\ ArbiterAwaits(c) = "dist"
              /\ Gettable(client_dist(c), ARBITER, tag) = {}
              /\ \E dist_all \in DistTables :
                    knet' = knet \cup {KmMsg(client_dist(c), ARBITER, tag, dist_all)}
           \/ /\ ArbiterAwaits(c) = "tol"
              /\ Gettable(client_tol(c), ARBITER, tag) = {}
              /\ \E t \in 0..MaxTolerance :
                    knet' = knet \cup {KmMsg(client_tol(c), ARBITER, tag, t)}
    /\ UNCHANGED <<arb, cli, klog, tag_exact, boostVars, ftlVars, calc>>

\* ---- HeteroKmenasArbiter.fit (lines 34-52)

A_RecvGuestDist ==
    /\ arb.pc = "loop"
    /\ ArbiterLoops(arb.n_iter_, arb.max_iter, arb.n, arb.tol)
    /\ LET tag == RoundSuffix(arb.n_iter_)
       IN  \E m \in Gettable("guest_dist", ARBITER, tag) :
              /\ knet' = knet \ {m}
              /\ klog' = klog \cup {KmEvent("recv", "guest_dist", ARBITER, arb.n_iter_, tag)}
              /\ arb' = [arb EXCEPT !.pc = "wait_host_dist", !.p1 = m.value]
    /\ UNCHANGED <<cli, tag_exact, boostVars, ftlVars, calc>>

\* host_dist.get, the join, centroid_assign, cluster_result.remote to both;
\* when the join raises, fit ends there and nothing is remoted
A_RecvHostDist ==
    /\ arb.pc = "wait_host_dist"
    /\ LET tag == RoundSuffix(arb.n_iter_)
       IN  \E m \in Gettable("host_dist", ARBITER, tag) :
              LET p2 == get_all(m.value, arb.all_as_list)
                  joined == join_tables(arb.p1, p2, arb.all_as_list)
                  new_centroid ==
                      arbiter_centroid_assign(arb.overridden, joined.table)
              IN
              IF joined.raised
              THEN /\ knet' = knet \ {m}
                   /\ klog' = klog \cup
                         { KmEvent("recv", "host_dist", ARBITER, arb.n_iter_, tag) }
                   /\ arb' = [arb EXCEPT !.pc = "error", !.p2 = p2]
              ELSE /\ knet' = (knet \ {m}) \cup
                         { KmMsg("cluster_result", GUEST, tag, new_centroid),
                           KmMsg("cluster_result", HOST, tag, new_centroid) }
                   /\ klog' = klog \cup
                         { KmEvent("recv", "host_dist", ARBITER, arb.n_iter_, tag),
                           KmEvent("send", "cluster_result", ARBITER, arb.n_iter_, tag) }
                   /\ arb' = [arb EXCEPT !.pc = "wait_guest_tol", !.p2 = p2,
                                         !.new_centroid = new_centroid]
    /\ UNCHANGED <<cli, tag_exact, boostVars, ftlVars, calc>>

A_RecvGuestTol ==
    /\ arb.pc = "wait_guest_tol"
    /\ LET tag == RoundSuffix(arb.n_iter_)
       IN  \E m \in Gettable("guest_tol", ARBITER, tag) :
              /\ knet' = knet \ {m}
              /\ klog' = klog \cup {KmEvent("recv", "guest_tol", ARBITER, arb.n_iter_, tag)}
              /\ arb' = [arb EXCEPT !.pc = "wait_host_tol", !.tol1 = m.value]
    /\ UNCHANGED <<cli, tag_exact, boostVars, ftlVars, calc>>

\* host_tol.get, n = tol1 + tol2, arbiter_tol.remote to both, break or n_iter_ += 1
A_RecvHostTol ==
    /\ arb.pc = "wait_host_tol"
    /\ LET tag == RoundSuffix(arb.n_iter_)
           out == ArbiterTolSuffix(arb.n_iter_)
       IN  \E m \in Gettable("host_tol", ARBITER, tag) :
              LET n == arb.tol1 + m.value
              IN  /\ knet' = (knet \ {m}) \cup
                        { KmMsg("arbiter_tol", HOST, out, n),
                          KmMsg("arbiter_tol", GUEST, out, n) }
                  /\ klog' = klog \cup
                        { KmEvent("recv", "host_tol", ARBITER, arb.n_iter_, tag),
                          KmEvent("send", "arbiter_tol", ARBITER, arb.n_iter_, out) }
                  /\ arb' = IF ArbiterBreaks(n, arb.tol)
                            THEN [arb EXCEPT !.n = n, !.pc = "done", !.broke = TRUE]
                            ELSE [arb EXCEPT !.n = n, !.pc = "loop", !.n_iter_ = @ + 1]
    /\ UNCHANGED <<cli, tag_exact, boostVars, ftlVars, calc>>

\* the while condition fails: fit returns
A_Return ==
    /\ arb.pc = "loop"
    /\ ~ArbiterLoops(arb.n_iter_, arb.max_iter, arb.n, arb.tol)
    /\ arb' = [arb EXCEPT !.pc = "done"]
    /\ UNCHANGED <<cli, knet, klog, tag_exact, boostVars, ftlVars, calc>>

KmNext ==
    \/ \E c \in Clients : C_Start(c)
    \/ \E c \in Clients : C_SendDist(c)
    \/ \E c \in Clients : C_RecvCluster(c)
    \/ \E c \in Clients : C_Return(c)
    \/ \E c \in Clients : N_PeerSend(c)
    \/ A_RecvGuestDist
    \/ A_RecvHostDist
    \/ A_RecvGuestTol
    \/ A_RecvHostTol
    \/ A_Return

\* ============================== K-MEANS: THE COMPUTATIONS OF ONE ROUND ====

\* largest number of centroids k
MaxK == 2

\* one feature per party, so that the Euclidean distance to a centroid is the
\* absolute difference; the jitter in the same unit as the distances
FeatureValues == {1, 3}
CentroidValues == {0, 4}
Jitters == {0, 2}

Abs(x) == IF x < 0 THEN 0 - x ELSE x

\* educl_dist (lines 38-43): one distance per centroid, each plus rand
educl_dist(u, centroid_list, rand) ==
    [i \in DOMAIN centroid_list |-> Abs(centroid_list[i] - u) + rand]

\* data_instances.mapValues(d) (line 79), d being educl_dist bound to the
\* client's centroids and to one random.random() (line 78): with centroids
\* None the loop of educl_dist (line 41) raises TypeError
map_educl_dist(data_instances, centroids, rand) ==
    IF centroids.is_none
    THEN [raised |-> TRUE, table |-> << >>]
    ELSE [raised |-> FALSE,
          table |-> [u \in DOMAIN data_instances |->
                        educl_dist(data_instances[u], centroids.items, rand)]]

\* cluster_result.filter(lambda k1, v1: v1 == kk): the keys assigned to kk
filter_cluster(cluster_result, kk) ==
    {u \in DOMAIN cluster_result : cluster_result[u] = kk}

\* get_sum (lines 56-60): "for items in x1" iterates an Instance, which is not
\* iterable, and raises TypeError
get_sum(x1, x2) == [raised |-> TRUE, is_none |-> FALSE, value |-> 0]

\* a.join(data_instances, lambda v1, v2: v2).reduce(sum_all) (line 67): the
\* reduce of an empty table is None, of one row that row, and with two rows or
\* more it calls get_sum on the first two
reduce_sum(a, data_instances) ==
    IF a = {}
    THEN [raised |-> FALSE, is_none |-> TRUE, value |-> 0]
    ELSE IF Cardinality(a) = 1
    THEN [raised |-> FALSE, is_none |-> FALSE,
          value |-> data_instances[CHOOSE u \in a : TRUE]]
    ELSE LET u == CHOOSE x \in a : TRUE
             v == CHOOSE x \in a \ {u} : TRUE
         IN  get_sum(data_instances[u], data_instances[v])

\* a.count (line 67): the attribute is read and not called, so the divisor is
\* the bound method and not a number
table_count(a) == [is_method |-> TRUE, n |-> Cardinality(a)]

\* the division of line 67: TypeError when the dividend is None or the divisor
\* is not a number
divide(x, d) ==
    IF x.is_none \/ d.is_method \/ d.n = 0
    THEN [raised |-> TRUE, value |-> 0]
    ELSE [raised |-> FALSE, value |-> x.value \div d.n]

\* centroid_list.append(centroid_k) (line 68): the value of the call, which
\* the code assigns back to centroid_list, is None
list_append(list, x) == PyNone

\* centroid_cal raised at `line`
CentroidCalRaises(line) ==
    [raised |-> TRUE, line |-> line, is_none |-> TRUE, items |-> << >>]

\* centroid_cal (lines 62-69): the loop over kk from the given kk on; on a None
\* cluster_result the filter of line 66 raises AttributeError
RECURSIVE centroid_cal_from(_, _, _, _, _)
centroid_cal_from(kk, k, centroid_list, cluster_result, data_instances) ==
    IF kk >= k
    THEN [raised |-> FALSE, line |-> 0, is_none |-> centroid_list.is_none,
          items |-> centroid_list.items]
    ELSE IF cluster_result.is_none
    THEN CentroidCalRaises(66)
    ELSE LET a == filter_cluster(cluster_result.items, kk)
             total == reduce_sum(a, data_instances)
         IN  IF total.raised
             THEN CentroidCalRaises(58)
             ELSE IF divide(total, table_count(a)).raised
             THEN CentroidCalRaises(67)
             ELSE IF centroid_list.is_none
             THEN CentroidCalRaises(68)
             ELSE centroid_cal_from(kk + 1, k,
                      list_append(centroid_list,
                                  divide(total, table_count(a)).value),
                      cluster_result, data_instances)

centroid_cal(cluster_result, data_instances, k) ==
    centroid_cal_from(0, k, PyList(<< >>), cluster_result, data_instances)

\* the inputs of one round: k, each client's features and jitter, each
\* client's centroids (None from the get_centroid of the source, a list from
\* one a subclass supplies), and whether centroid_assign is supplied
CalcInit ==
    \E k \in 1..MaxK, overridden \in BOOLEAN, as_list \in BOOLEAN,
       supplied \in [Clients -> BOOLEAN] :
    \E cg \in [1..k -> CentroidValues], ch \in [1..k -> CentroidValues],
       fg \in [Samples -> FeatureValues], fh \in [Samples -> FeatureValues],
       rg \in Jitters, rh \in Jitters :
        calc = [ pc |-> "input",
                 k |-> k,
                 overridden |-> overridden,
                 all_as_list |-> as_list,
                 centroids |-> [c \in Clients |->
                                  IF ~supplied[c] THEN PyNone
                                  ELSE PyList(IF c = GUEST THEN cg ELSE ch)],
                 features |-> [c \in Clients |-> IF c = GUEST THEN fg ELSE fh],
                 rand |-> [c \in Clients |-> IF c = GUEST THEN rg ELSE rh],
                 dist_all |-> [c \in Clients |-> [raised |-> FALSE, table |-> << >>]],
                 cluster_result |-> PyList(<< >>),
                 centroid_new |-> [raised |-> FALSE, line |-> 0,
                                   is_none |-> FALSE, items |-> << >>] ]

\* both clients: dist_all = data_instances.mapValues(d) (client lines 78-79)
K_EduclDist ==
    /\ calc.pc = "input"
    /\ calc' = [calc EXCEPT
            !.pc = "dist",
            !.dist_all = [c \in Clients |->
                map_educl_dist(calc.features[c], calc.centroids[c], calc.rand[c])]]
    /\ UNCHANGED <<boostVars, ftlVars, kmVars>>

\* the arbiter, on the two values its gets returned: the join and
\* centroid_assign (arbiter lines 40-41); a client whose line 79 raised sent no
\* table, and when the join raises no assignment is computed
K_CentroidAssign ==
    /\ calc.pc = "dist"
    /\ \A c \in Clients : ~calc.dist_all[c].raised
    /\ LET p2 == get_all(calc.dist_all[HOST].table, calc.all_as_list)
           joined == join_tables(calc.dist_all[GUEST].table, p2, calc.all_as_list)
       IN  calc' = IF joined.raised
                   THEN [calc EXCEPT !.pc = "join_raised"]
                   ELSE [calc EXCEPT
                            !.pc = "assigned",
                            !.cluster_result =
                                arbiter_centroid_assign(calc.overridden, joined.table)]
    /\ UNCHANGED <<boostVars, ftlVars, kmVars>>

\* the guest: centroid_cal on the assignment and its own features (line 82)
K_CentroidCal ==
    /\ calc.pc = "assigned"
    /\ calc' = [calc EXCEPT
            !.pc = "centroids",
            !.centroid_new = centroid_cal(calc.cluster_result,
                                          calc.features[GUEST], calc.k)]
    /\ UNCHANGED <<boostVars, ftlVars, kmVars>>

CalcNext ==
    \/ K_EduclDist
    \/ K_CentroidAssign
    \/ K_CentroidCal

\* ====================================================== specifications ====

BoostIdle == guest = None /\ host = None /\ bnet = {}
FtlIdle == ftl = None /\ flog = << >>
KmIdle == arb = None /\ cli = None /\ knet = {} /\ klog = {} /\ tag_exact = TRUE
CalcIdle == calc = None

\* hetero boosting: one guest and one host
BoostSpecInit == BoostInit /\ FtlIdle /\ KmIdle /\ CalcIdle
SpecBoost == BoostSpecInit /\ [][BoostNext]_vars

\* hetero FTL: the factory and the guest it builds; host and arbiter answer
FtlSpecInit == FtlInit /\ BoostIdle /\ KmIdle /\ CalcIdle
SpecFTL == FtlSpecInit /\ [][FtlNext]_vars

\* hetero FTL with fit called again on the guest after it returned
FtlRefitSpecInit == FtlRefitInit /\ BoostIdle /\ KmIdle /\ CalcIdle
SpecFTLRefit == FtlRefitSpecInit /\ [][FtlNext]_vars

\* hetero k-means: guest, host and arbiter
KmSpecInit == KmInit /\ BoostIdle /\ FtlIdle /\ CalcIdle
SpecKMeans == KmSpecInit /\ [][KmNext]_vars

\* hetero k-means with every role a running process: a role that can take a
\* step eventually takes one
ArbiterStep ==
    A_RecvGuestDist \/ A_RecvHostDist \/ A_RecvGuestTol \/ A_RecvHostTol \/ A_Return
ClientStep(c) ==
    C_Start(c) \/ C_SendDist(c) \/ C_RecvCluster(c) \/ C_Return(c)
KmFairness ==
    /\ WF_vars(ArbiterStep)
    /\ \A c \in Clients : WF_vars(ClientStep(c))
SpecKMeansLive == KmSpecInit /\ [][KmNext]_vars /\ KmFairness

\* the local computations of one k-means round, on drawn inputs
CalcSpecInit == CalcInit /\ BoostIdle /\ FtlIdle /\ KmIdle
SpecCalc == CalcSpecInit /\ [][CalcNext]_vars


\* ---------------------------------------------------- boosting: properties

BoostReturned(p) == p.pc \in {"done", "predict", "predicted"}
GuestLeftLoop == guest.pc = "after_loop" \/ BoostReturned(guest)

\* the method name is none of the supported ones
Unsupported(method) == Lower(method) \notin {"paillier", "iterativeaffine"}

\* C1: the host's loop-exit decision of round r is the stop flag the guest
\* remoted with tag r; the host is in round r+1 only if the guest's flag of round
\* r was false; with equal boosting_round both parties run the same number of
\* rounds.
C1_HostFollowsGuestFlag ==
    /\ Len(host.flags) <= Len(guest.flags)
    /\ \A r \in 1..Len(host.flags) :
          /\ host.flags[r] = guest.flags[r]
          /\ BoostMsg("stop_flag", r - 1, host.flags[r]) \in bnet
    /\ (host.pc = "loop" /\ host.epoch_idx > 0) =>
          /\ host.epoch_idx <= Len(guest.flags)
          /\ guest.flags[host.epoch_idx] = FALSE
    /\ (GuestLeftLoop /\ BoostReturned(host)
            /\ guest.boosting_round = host.boosting_round) =>
          guest.rounds_done = host.rounds_done

\* C1 witness: guest and host both stopped by a true flag in the second round
C1_Witness ==
    /\ guest.pc = "done" /\ host.pc = "done"
    /\ guest.boosting_round = host.boosting_round
    /\ host.flags = <<FALSE, TRUE>>
    /\ host.rounds_done = 2

\* C2: at the end of every completed round and when fit has returned,
\* len(boosting_model_list) = completed rounds * booster_dim, on guest and host.
C2_EnsembleLength ==
    /\ (GuestLeftLoop \/ (guest.pc = "loop" /\ guest.class_idx = 0)) =>
          Len(guest.boosting_model_list) = guest.rounds_done * guest.booster_dim
    /\ (BoostReturned(host) \/ (host.pc = "loop" /\ host.class_idx = 0)) =>
          Len(host.boosting_model_list) = host.rounds_done * host.booster_dim

\* C2 witness: two completed rounds of three boosters each, on both parties
C2_Witness ==
    /\ guest.pc = "done" /\ host.pc = "done"
    /\ guest.booster_dim = 3 /\ host.booster_dim = 3
    /\ guest.rounds_done = 2 /\ host.rounds_done = 2
    /\ Len(guest.boosting_model_list) = 6 /\ Len(host.boosting_model_list) = 6

\* the i-th load_booster call of predict gets the i-th booster fit appended, with
\* the (epoch_idx, class_idx) it was fitted for
ReplaysInOrder(p) ==
    /\ Len(p.loaded) <= Len(p.boosting_model_list)
    /\ \A i \in 1..Len(p.loaded) :
          /\ p.loaded[i][1] = p.boosting_model_list[i]
          /\ p.loaded[i][1] = <<p.loaded[i][2], p.loaded[i][3]>>
    /\ p.pc = "predicted" => Len(p.loaded) = Len(p.boosting_model_list)

\* C3: predict replays every stored booster exactly once, in the (round, dim)
\* order of fit, and loads the booster fitted as (e, c) with load_booster(.., e, c).
C3_PredictReplaysFitOrder == ReplaysInOrder(guest) /\ ReplaysInOrder(host)

\* C3 witness: both parties have replayed two rounds of three boosters
C3_Witness ==
    /\ guest.pc = "predicted" /\ host.pc = "predicted"
    /\ Len(guest.loaded) = 6 /\ Len(host.loaded) = 6
    /\ guest.loaded[4] = << <<1, 0>>, 1, 0 >>

\* C9: a party configured with an unrecognized encryption method never fits a
\* booster, never appends to boosting_model_list, and never sends (guest) or
\* receives (host) a stop flag.
C9_UnsupportedMethodNoRound ==
    /\ Unsupported(guest.method) =>
          /\ guest.fitted = 0
          /\ guest.boosting_model_list = << >>
          /\ guest.flags = << >>
          /\ \A m \in bnet : m.name # "stop_flag"
          /\ guest.pc \in {"start", "prepared", "error", "label_error"}
    /\ Unsupported(host.method) =>
          /\ host.fitted = 0
          /\ host.boosting_model_list = << >>
          /\ host.flags = << >>
          /\ host.pc \in {"start", "prepared", "error"}

\* C9 witness: both parties have raised in generate_encrypter
C9_Witness ==
    /\ guest.pc = "error" /\ host.pc = "error"
    /\ Unsupported(guest.method) /\ Unsupported(host.method)

\* C10 (as claimed): a party whose fit failed on the encryption method has sent
\* and received no message and has not changed its label, score or ensemble.
C10_NoPartialState ==
    /\ guest.pc = "error" =>
          /\ bnet = {}
          /\ guest.y = BoostingAttrs.y
          /\ guest.y_hat = BoostingAttrs.y_hat
          /\ guest.init_score = BoostingAttrs.init_score
          /\ guest.boosting_model_list = BoostingAttrs.boosting_model_list
    /\ host.pc = "error" => host.received = 0

\* the stop flags the guest has remoted
StopFlagsSent == {m \in bnet : m.name = "stop_flag"}

\* C11 (as claimed): in a classification task whose label set is not the range
\* 0..num_classes-1, check_label raises nothing and leaves every label of y in
\* 0..num_classes-1, distinct classes on distinct indexes.
C11_RemapIntoRange ==
    (guest.pc # "start" /\ guest.task_type = CLASSIFICATION
            /\ ~range_from_zero(guest.labels)) =>
        /\ guest.pc # "label_error"
        /\ guest.y \subseteq 0..(guest.num_classes - 1)
        /\ Cardinality(guest.y) = Cardinality(guest.labels)

\* C14: after R executed rounds the guest's loss history has R entries and R
\* stop flags were remoted, the flag of round r tagged r and remoted when the
\* boosters of rounds 0..r were fitted and the loss of round r appended; only
\* the last flag can be true, and after a true flag the guest is out of its loop.
C14_OneFlagPerRound ==
    guest.pc \notin {"start", "label_error"} =>
        /\ Len(guest.history_loss) = guest.rounds_done
        /\ Len(guest.flags) = guest.rounds_done
        /\ StopFlagsSent =
              {BoostMsg("stop_flag", r - 1, guest.flags[r]) : r \in 1..guest.rounds_done}
        /\ Cardinality(StopFlagsSent) = guest.rounds_done
        /\ guest.fitted >= guest.rounds_done * guest.booster_dim
        /\ \A r \in 1..(guest.rounds_done - 1) : guest.flags[r] = FALSE
        /\ (guest.rounds_done > 0 /\ guest.flags[guest.rounds_done]) => GuestLeftLoop
        /\ GuestLeftLoop => guest.fitted = guest.rounds_done * guest.booster_dim

\* C14 witness: fit returned after two rounds, the second flag true
C14_Witness ==
    /\ guest.pc = "done"
    /\ guest.rounds_done = 2
    /\ Len(guest.history_loss) = 2
    /\ BoostMsg("stop_flag", 0, FALSE) \in bnet
    /\ BoostMsg("stop_flag", 1, TRUE) \in bnet

\* 1 for regression and for at most two classes, else the number of classes
ExpectedBoosterDim ==
    IF guest.task_type = CLASSIFICATION /\ Cardinality(guest.labels) > 2
    THEN Cardinality(guest.labels)
    ELSE 1

\* C27: once check_label has returned, the guest's booster_dim is 1 for
\* regression and for at most two classes and the number of classes otherwise,
\* and it has been remoted before any booster is fitted; the host's booster_dim
\* is the received value, it bounds the inner loop of every host round, and
\* guest and host fit booster_dim boosters per round.
C27_BoosterDimAgreed ==
    /\ guest.pc \notin {"start", "label_error"} =>
          /\ guest.booster_dim = ExpectedBoosterDim
          /\ BoostMsg("booster_dim", NoTag, guest.booster_dim) \in bnet
          /\ \A m \in bnet : m.name = "booster_dim" => m.value = guest.booster_dim
    /\ guest.pc \in {"start", "label_error"} =>
          /\ guest.fitted = 0
          /\ host.pc = "start"
    /\ host.pc # "start" =>
          /\ host.booster_dim = guest.booster_dim
          /\ host.class_idx <= guest.booster_dim
          /\ host.fitted = IF host.pc = "loop"
                            THEN host.rounds_done * guest.booster_dim + host.class_idx
                            ELSE host.rounds_done * guest.booster_dim
    /\ GuestLeftLoop => guest.fitted = guest.rounds_done * guest.booster_dim

\* C27 witness: three classes, and both parties fitted three boosters in each
\* of two rounds
C27_Witness ==
    /\ guest.pc = "done" /\ host.pc = "done"
    /\ guest.task_type = CLASSIFICATION /\ Cardinality(guest.labels) = 3
    /\ host.booster_dim = 3
    /\ host.rounds_done = 2 /\ host.fitted = 6
    /\ guest.rounds_done = 2 /\ guest.fitted = 6

\* --------------------------------------------------------- FTL: properties

\* occurrences of x in a sequence
Count(seq, x) == Cardinality({i \in DOMAIN seq : seq[i] = x})

\* the local iteration whose body is running has ended, or fit is past the sub-loop
LocalIterationEnded == ftl.pc \in {"local", "loop", "break", "done"}

\* C6 (as claimed): every mask generated in the decentralized guest, gradient
\* mask or loss mask, of every local iteration, is removed exactly once: never
\* twice, and none is left when the local iteration that generated it has ended.
C6_EveryMaskRemovedOnce ==
    ftl.class = "HeteroDecentralizedEncryptFTLGuest" =>
        /\ \A i \in DOMAIN ftl.removed :
              /\ Count(ftl.removed, ftl.removed[i]) = 1
              /\ Count(ftl.masks, ftl.removed[i]) = 1
        /\ LocalIterationEnded =>
              \A i \in DOMAIN ftl.masks : Count(ftl.removed, ftl.masks[i]) = 1

\* the events of fit in the log: predict's get and remote (lines 82, 90) are
\* not part of a fit call
IsFitEvent(e) == e.name \notin {"host_prob", "pred_prob"}
FitLog == SelectSeq(flog, IsFitEvent)

\* C7 (as claimed): within one fit call the guest sends at most one message, and
\* issues at most one receive, per (channel name, tag).
C7_AtMostOncePerTag ==
    \A i, j \in DOMAIN FitLog :
        (i < j /\ FitLog[i].op \in {"send", "recv"} /\ FitLog[i].op = FitLog[j].op
               /\ FitLog[i].name = FitLog[j].name)
            => FitLog[i].tag # FitLog[j].tag

SupportedEncFtl == {"enc_ftl", "dct_enc_ftl"}

\* C8 (as claimed): for every unsupported enc_ftl, whatever is_encrypt, create
\* raises and constructs no guest.
C8_RaisesForEveryUnsupported ==
    (ftl.pc # "param" /\ ftl.enc_ftl \notin SupportedEncFtl) =>
        /\ ftl.pc = "config_error"
        /\ ftl.created = 0

\* C8 (amended): for every unsupported enc_ftl, create raises and constructs no
\* guest when is_encrypt is true; when is_encrypt is false enc_ftl is not
\* consulted and exactly one plain guest is constructed.
C8_RaisesWhenEncrypted ==
    (ftl.pc # "param" /\ ftl.enc_ftl \notin SupportedEncFtl) =>
        IF ftl.is_encrypt
        THEN ftl.pc = "config_error" /\ ftl.created = 0 /\ ftl.class = None
        ELSE ftl.pc # "config_error" /\ ftl.created = 1
             /\ ftl.class = "HeteroPlainFTLGuest"

\* C8 witness: create has raised on an unsupported variant name
C8_Witness ==
    /\ ftl.pc = "config_error"
    /\ ftl.is_encrypt
    /\ ftl.enc_ftl \notin SupportedEncFtl
    /\ ftl.created = 0

\* occurrences in the guest's log of an event of channel `name` with tag `tag`
Events(op, name, tag) ==
    {i \in DOMAIN flog : flog[i].op = op /\ flog[i].name = name /\ flog[i].tag = tag}

Centralized == ftl.class = "HeteroEncryptFTLGuest"
Decentralized == ftl.class = "HeteroDecentralizedEncryptFTLGuest"

\* C12: the centralized encrypted guest remotes encrypt_guest_gradient and
\* encrypt_loss to the arbiter and never to the host, once per round; it never
\* calls its convergence function; it leaves the loop by break exactly when the
\* is_stop it received from the arbiter for that round is true.
C12_ArbiterDecryptsAndDecides ==
    Centralized =>
        /\ \A i \in DOMAIN flog :
              (flog[i].op = "send"
                    /\ flog[i].name \in {"encrypt_guest_gradient", "encrypt_loss"})
                 => flog[i].role = ARBITER /\ flog[i].role # HOST
        /\ \A i \in DOMAIN flog : flog[i].name # "is_converge"
        /\ \A n \in 0..(ftl.n_iter_ - 1) :
              /\ Cardinality(Events("send", "encrypt_guest_gradient", n)) = 1
              /\ Cardinality(Events("send", "encrypt_loss", n)) = 1
              /\ Cardinality(Events("recv", "is_encrypted_ftl_stopped", n)) = 1
        /\ ftl.pc = "break" => ftl.is_stop
        /\ (ftl.pc = "loop" /\ ftl.n_iter_ > 0) => ~ftl.is_stop

\* C12 witness: the centralized guest was stopped by the arbiter in its second round
C12_Witness ==
    /\ Centralized
    /\ ftl.pc = "done"
    /\ ftl.n_iter_ = 2
    /\ ftl.is_stop
    /\ Cardinality(Events("send", "encrypt_loss", 1)) = 1

\* what a caller can read from the guest object after fit (lines 47-49)
FtlObservable == [max_iter |-> ftl.max_iter,
                  local_iterations |-> ftl.local_iterations,
                  n_iter_ |-> ftl.n_iter_]

\* what a run of the same configuration leaves when the budget is exhausted
ExhaustedObservable == [max_iter |-> ftl.max_iter,
                        local_iterations |-> ftl.local_iterations,
                        n_iter_ |-> ftl.max_iter]

\* a run that ends without the stop flag leaves ExhaustedObservable
ExhaustedRunLeaves ==
    (ftl.pc = "done" /\ ~ftl.is_stop) => FtlObservable = ExhaustedObservable

\* C16 (as claimed): a run that was stopped by the stop flag leaves an observable
\* state different from the one budget exhaustion leaves.
C16_OutcomeObservable ==
    (ftl.pc = "done" /\ ftl.is_stop) => FtlObservable # ExhaustedObservable

\* the sub-loop of the outer round is over and is_converge(loss) is next
AtConvergenceCheck ==
    Decentralized /\ ftl.pc = "local" /\ ftl.local_iter >= ftl.local_iterations

\* C18 (as claimed): in every outer round the masked loss is sent once and the
\* decrypted loss received and unmasked once, in local iteration 0, and the loss
\* given to the convergence check is the one recovered in that round.
C18_LossInFirstLocalIteration ==
    Decentralized =>
        /\ \A n \in 0..(ftl.n_iter_ - 1) :
              /\ Cardinality(Events("send", "masked_enc_loss", n)) = 1
              /\ Cardinality(Events("recv", "masked_dec_loss", n)) = 1
        /\ (ftl.pc \in {"stage3", "stage4"} /\ ftl.local_iter > 0) =>
              /\ Cardinality(Events("send", "masked_enc_loss", ftl.n_iter_)) = 1
              /\ Cardinality(Events("recv", "masked_dec_loss", ftl.n_iter_)) = 1
        /\ AtConvergenceCheck =>
              /\ ftl.loss # None
              /\ Cardinality(Events("recv", "masked_dec_loss", ftl.n_iter_)) = 1

\* the compute_components call at position i follows a receive_gradients call
\* with no compute_gradients in between
AfterGradientsApplied(i) ==
    \E j \in 1..(i - 1) :
        /\ flog[j].name = "receive_gradients"
        /\ \A k \in (j + 1)..(i - 1) :
              flog[k].name \notin {"compute_gradients", "compute_components"}

\* C19: in every finished outer round of a guest with local_iterations >= 1,
\* compute_components was called local_iterations - 1 times, each time after the
\* gradients of that local iteration were applied; in a running round it was
\* called once per ended local iteration that is not the last.
C19_ComponentsExceptLast ==
    (Decentralized /\ ftl.local_iterations >= 1) =>
        /\ \A n \in 0..(ftl.n_iter_ - 1) :
              Cardinality(Events("call", "compute_components", n))
                  = ftl.local_iterations - 1
        /\ ftl.pc = "local" =>
              Cardinality(Events("call", "compute_components", ftl.n_iter_))
                  = IF ftl.local_iter < ftl.local_iterations
                    THEN ftl.local_iter ELSE ftl.local_iterations - 1
        /\ \A i \in DOMAIN flog :
              flog[i].name = "compute_components" => AfterGradientsApplied(i)

\* C19 witness: two outer rounds of two local iterations each have finished
C19_Witness ==
    /\ Decentralized /\ ftl.pc = "done"
    /\ ftl.local_iterations = 2 /\ ftl.n_iter_ = 2
    /\ Cardinality(Events("call", "compute_components", 0)) = 1
    /\ Cardinality(Events("call", "compute_components", 1)) = 1
    /\ Cardinality(Events("call", "receive_gradients", 1)) = 2

Plain == ftl.class = "HeteroPlainFTLGuest"

\* position in the log of the first event of round n of the plain guest
PlainRoundBase(n) == Len(prepare_data_log) + 4 * n

\* C24: every executed round n of the plain guest sends the guest components
\* tagged n, receives the host components tagged n, evaluates convergence, sends
\* the stop flag tagged n, and then increments n_iter_; the flag of round n is
\* what is_converge returned in round n; a true flag is the last flag, and the
\* loop is left right after it.
C24_PlainRoundOrder ==
    (Plain /\ ftl.pc \in {"loop", "break", "done"}) =>
        /\ Len(FitLog) = PlainRoundBase(ftl.n_iter_)
        /\ \A n \in 0..(ftl.n_iter_ - 1) :
              LET b == PlainRoundBase(n)
              IN  /\ FitLog[b + 1] = Send("guest_component_list", n, HOST)
                  /\ FitLog[b + 2] = Recv("host_component_list", n)
                  /\ FitLog[b + 3] = Call("is_converge", n)
                  /\ FitLog[b + 4] = Send("is_stopped", n, HOST)
        /\ Len(ftl.flags) = ftl.n_iter_
        /\ Len(ftl.converged) = ftl.n_iter_
        /\ \A n \in 1..ftl.n_iter_ : ftl.flags[n] = ftl.converged[n]
        /\ \A n \in 1..(ftl.n_iter_ - 1) : ~ftl.flags[n]
        /\ (ftl.n_iter_ > 0 /\ ftl.flags[ftl.n_iter_]) => ftl.pc \in {"break", "done"}
        /\ Cardinality({n \in DOMAIN ftl.flags : ftl.flags[n]}) <= 1

\* C24 witness: the plain guest converged in its second round
C24_Witness ==
    /\ Plain /\ ftl.pc = "done"
    /\ ftl.converged = <<FALSE, TRUE>>
    /\ ftl.flags = <<FALSE, TRUE>>
    /\ FitLog[PlainRoundBase(1) + 4] = Send("is_stopped", 1, HOST)

\* the channels and calls that carry key material
KeyNames == {"paillier_pubkey", "generate_encryption_key_pair",
             "guest_public_key", "host_public_key"}

\* positions in the log of fit of the events named `name`
Named(name) == {i \in DOMAIN FitLog : FitLog[i].name = name}

\* position of the first event of the first round, or past the end of the log
FirstRoundEvent ==
    IF Named("guest_component_list") = {} THEN Len(FitLog) + 1
    ELSE CHOOSE i \in Named("guest_component_list") :
            \A j \in Named("guest_component_list") : i <= j

\* C25: once fit has started, the centralized guest has received
\* paillier_pubkey exactly once, the decentralized guest has generated one key
\* pair, sent guest_public_key once and (once it is past that get) received
\* host_public_key once, all before the first event of the first round; the
\* plain guest and the loops carry no key event.
C25_KeysOnceBeforeLoop ==
    ftl.pc \notin {"param", "config_error", "created"} =>
        /\ \A i \in DOMAIN FitLog :
              FitLog[i].name \in KeyNames => i < FirstRoundEvent
        /\ Centralized =>
              /\ Cardinality(Named("paillier_pubkey")) = 1
              /\ FitLog[1] = Recv("paillier_pubkey", NoTag)
              /\ \A i \in DOMAIN FitLog : FitLog[i].name \in KeyNames => i = 1
        /\ Decentralized =>
              /\ Cardinality(Named("generate_encryption_key_pair")) = 1
              /\ Cardinality(Named("guest_public_key")) = 1
              /\ FitLog[2].op = "send" /\ FitLog[2].name = "guest_public_key"
              /\ IF ftl.pc = "wait_host_public_key"
                 THEN Named("host_public_key") = {}
                 ELSE /\ Cardinality(Named("host_public_key")) = 1
                      /\ FitLog[3].op = "recv" /\ FitLog[3].name = "host_public_key"
              /\ Named("paillier_pubkey") = {}
        /\ Plain => \A i \in DOMAIN FitLog : FitLog[i].name \notin KeyNames

\* C25 witness: the decentralized guest has run two rounds after one key exchange
C25_Witness ==
    /\ Decentralized /\ ftl.pc = "done" /\ ftl.n_iter_ = 2
    /\ Cardinality(Named("guest_public_key")) = 1
    /\ Cardinality(Named("guest_component_list")) = 2

\* C26: what the decentralized guest sends to the host for decryption in a
\* local iteration is the encrypted value blinded by the mask generated in that
\* same local iteration, never the unmasked ciphertext, and no mask is generated
\* for, or applied to, two values.
C26_SentValuesFreshlyMasked ==
    (Decentralized /\ ftl.pc \in {"stage3", "stage4"}) =>
        /\ ftl.gradients_masks = Mask("gradients", ftl.n_iter_, ftl.local_iter)
        /\ ftl.loss_mask = Mask("loss", ftl.n_iter_, ftl.local_iter)
        /\ Count(ftl.masks, ftl.gradients_masks) = 1
        /\ Count(ftl.masks, ftl.loss_mask) = 1
        /\ \A i \in DOMAIN ftl.gradients :
              /\ ftl.sent_gradients[i]
                    = Encrypt(ftl.gradients[i] + ftl.mask_values[i])
              /\ ftl.sent_gradients[i] # Encrypt(ftl.gradients[i])
        /\ Len(ftl.sent_gradients) = Len(ftl.gradients)
        /\ SendsLoss(ftl.local_iter) =>
              /\ ftl.sent_loss = Encrypt(ftl.loss_plain + ftl.loss_mask_value)
              /\ ftl.sent_loss # Encrypt(ftl.loss_plain)

\* C26 witness: the second local iteration of the second round has sent its
\* masked gradients
C26_Witness ==
    /\ Decentralized /\ ftl.pc = "stage3"
    /\ ftl.n_iter_ = 1 /\ ftl.local_iter = 1
    /\ ftl.gradients = <<3, 0>> /\ ftl.mask_values = <<2, 1>>
    /\ ftl.sent_gradients = <<Encrypt(5), Encrypt(1)>>
    /\ Len(ftl.masks) = 8

\* C28: on the supported configurations create builds exactly one guest:
\* the plain one when is_encrypt is false, the centralized one for enc_ftl
\* "enc_ftl", the decentralized one for "dct_enc_ftl".
C28_FactoryMapping ==
    (ftl.pc # "param" /\ (~ftl.is_encrypt \/ ftl.enc_ftl \in SupportedEncFtl)) =>
        /\ ftl.pc # "config_error"
        /\ ftl.created = 1
        /\ ~ftl.is_encrypt => ftl.class = "HeteroPlainFTLGuest"
        /\ (ftl.is_encrypt /\ ftl.enc_ftl = "enc_ftl")
              => ftl.class = "HeteroEncryptFTLGuest"
        /\ (ftl.is_encrypt /\ ftl.enc_ftl = "dct_enc_ftl")
              => ftl.class = "HeteroDecentralizedEncryptFTLGuest"

\* C28 witness: the decentralized guest was built and has started its fit
C28_Witness ==
    /\ ftl.is_encrypt /\ ftl.enc_ftl = "dct_enc_ftl"
    /\ ftl.class = "HeteroDecentralizedEncryptFTLGuest"
    /\ ftl.created = 1
    /\ ftl.pc = "loop"

\* ----------------------------------------------------- k-means: properties

\* C5 (as claimed): on every channel, the remote of round r and the get of round
\* r both carry the round tag r.
C5_TagIsRound ==
    \A e \in klog : e.tag = RoundSuffix(e.round)

\* the signals the arbiter sent to client c that the client's get of round r
\* (line 87) takes and on which the client breaks (line 89)
StopSignals(c, r) ==
    {m \in Gettable("arbiter_tol", c, RoundSuffix(r)) : ClientBreaks(m.value)}

\* C4 (as claimed): once the arbiter has ended its loop after round r because
\* the combined tolerance is below tol, every client is sent a round-r signal
\* that its get takes and on which it leaves its loop, and no client sends a
\* distance message of a later round.
C4_ClientLeavesWithArbiter ==
    arb.broke =>
        \A c \in Clients :
            /\ \A e \in klog :
                  (e.op = "send" /\ e.party = c /\ e.name = client_dist(c))
                      => e.round <= arb.n_iter_
            /\ StopSignals(c, arb.n_iter_) # {}

\* the per-sample element-wise sum of two distance tables
ElementwiseSum(p1, p2) ==
    [u \in DOMAIN p1 |-> [i \in DOMAIN p1[u] |-> p1[u][i] + p2[u][i]]]

\* the arbiter has broadcast the assignment of its current round
BroadcastDone == arb.pc \in {"wait_guest_tol", "wait_host_tol"}

\* C13 (as claimed): the assignment the arbiter broadcasts in a round, to the
\* guest and to the host alike and under the round's tag, is centroid_assign of
\* the per-sample element-wise sum of the two distance tables of that round.
C13_BroadcastIsAssignmentOfSum ==
    BroadcastDone =>
        /\ arb.new_centroid = PyList(centroid_assign(ElementwiseSum(arb.p1, arb.p2)))
        /\ \A m \in knet :
              (m.name = "cluster_result" /\ m.tag = RoundSuffix(arb.n_iter_))
                  => m.value = arb.new_centroid
        /\ KmEvent("send", "cluster_result", ARBITER, arb.n_iter_,
                   RoundSuffix(arb.n_iter_)) \in klog

\* rounds whose body the arbiter ran to its end
ArbiterRounds ==
    Cardinality({e \in klog : e.op = "recv" /\ e.name = "host_tol"})

\* C15 (as claimed, k-means roles): a role whose stop condition never fired
\* returns after exactly max_iter rounds and raises no error, and no role sends
\* or receives in a round whose index is max_iter or more.
C15_LoopsRunToBudget ==
    /\ (arb.pc = "done" /\ ~arb.broke) => ArbiterRounds = arb.max_iter
    /\ \A e \in klog : e.round < arb.max_iter
    /\ \A c \in Clients :
          /\ cli[c].pc = "done" => cli[c].n_iter_ = cli[c].max_iter
          /\ cli[c].pc # "error"

\* C15, boosting roles: a party that saw no true flag ran boosting_round rounds,
\* and no round index reaches boosting_round
BoostLoopsRunToBudget ==
    /\ guest.epoch_idx < guest.boosting_round
    /\ host.epoch_idx < host.boosting_round
    /\ (GuestLeftLoop /\ \A r \in DOMAIN guest.flags : ~guest.flags[r])
          => guest.rounds_done = guest.boosting_round
    /\ (BoostReturned(host) /\ \A r \in DOMAIN host.flags : ~host.flags[r])
          => host.rounds_done = host.boosting_round

\* C15, FTL guests: a guest that was not stopped ran max_iter rounds, and no
\* message carries a round of max_iter or more
FtlLoopsRunToBudget ==
    /\ (ftl.pc = "done" /\ ~ftl.is_stop) => ftl.n_iter_ = ftl.max_iter
    /\ \A i \in DOMAIN flog : flog[i].tag < ftl.max_iter

\* C20 (as claimed): the arbiter leaves its loop only after a round whose
\* combined tolerance is below tol, or with the budget exhausted; with n >= tol
\* and rounds remaining it starts another round.
C20_StopsOnlyBelowTol ==
    /\ arb.broke => arb.n < arb.tol
    /\ arb.pc = "done" => (arb.broke \/ arb.n_iter_ >= arb.max_iter)

\* rounds whose body client c ran to its end
ClientRounds(c) ==
    Cardinality({e \in klog : e.op = "recv" /\ e.name = "arbiter_tol" /\ e.party = c})

\* C21 (as claimed, k-means roles): when fit has returned, a role's n_iter_ is
\* the number of rounds it completed, and the arbiter's n_iter_ equals the
\* clients' n_iter_.
C21_RoundIndexCountsRounds ==
    /\ arb.pc = "done" => arb.n_iter_ = ArbiterRounds
    /\ \A c \in Clients : cli[c].pc = "done" => cli[c].n_iter_ = ClientRounds(c)
    /\ \A c \in Clients :
          (arb.pc = "done" /\ cli[c].pc = "done") => arb.n_iter_ = cli[c].n_iter_

\* C21, FTL guests: n_iter_ is the number of rounds whose components were sent
FtlRoundIndexCountsRounds ==
    ftl.pc = "done" =>
        ftl.n_iter_ = Cardinality({i \in DOMAIN flog :
                           flog[i].op = "send" /\ flog[i].name = "guest_component_list"})

\* C22 (as claimed): a client computes the distances of a round after round 0
\* against the centroid list it computed in the round before, and once it has
\* taken the assignment of round r the list its next round reads is the one
\* computed in round r (the list of round r is numbered r + 1, the initial
\* one 0).
C22_UsesCentroidsOfLastRound ==
    \A c \in Clients :
        /\ (cli[c].pc = "wait_cluster" /\ cli[c].n_iter_ > 0)
              => cli[c].dist_centroids = cli[c].n_iter_
        /\ \A e \in klog :
              (e.op = "recv" /\ e.name = "cluster_result" /\ e.party = c)
                  => cli[c].centroids = e.round + 1

\* the samples the arbiter assigned to cluster kk
AssignedTo(kk) == filter_cluster(calc.cluster_result.items, kk)

\* the sum of a feature over a set of samples
RECURSIVE FeatureSum(_, _)
FeatureSum(a, data_instances) ==
    IF a = {} THEN 0
    ELSE LET u == CHOOSE x \in a : TRUE
         IN  data_instances[u] + FeatureSum(a \ {u}, data_instances)

\* C23 (as claimed): centroid_cal returns, without error, a list of exactly k
\* centroids, the one at index kk being the mean of the guest's feature over the
\* samples assigned to kk.
C23_CentroidCalReturnsMeans ==
    calc.pc = "centroids" =>
        /\ ~calc.centroid_new.raised
        /\ ~calc.centroid_new.is_none
        /\ Len(calc.centroid_new.items) = calc.k
        /\ ~calc.cluster_result.is_none
        /\ \A kk \in 0..(calc.k - 1) :
              AssignedTo(kk) # {} =>
                  calc.centroid_new.items[kk + 1] * Cardinality(AssignedTo(kk))
                      = FeatureSum(AssignedTo(kk), calc.features[GUEST])

\* the table a client would send with no jitter
Unjittered(c) ==
    map_educl_dist(calc.features[c], calc.centroids[c], 0).table

\* C30 (as claimed): the assignment the arbiter computes from the jittered
\* tables is the one it computes from the tables without jitter, and that is,
\* for every sample, the index of the smallest element-wise sum of the
\* unjittered distances.
C30_JitterKeepsAssignment ==
    calc.pc \in {"assigned", "centroids"} =>
        /\ calc.cluster_result
              = arbiter_centroid_assign(calc.overridden,
                    dist_sum(Unjittered(GUEST), Unjittered(HOST)))
        /\ calc.cluster_result
              = PyList(centroid_assign(ElementwiseSum(Unjittered(GUEST),
                                                      Unjittered(HOST))))

\* every role has returned from fit
AllReturned == arb.pc = "done" /\ \A c \in Clients : cli[c].pc = "done"

\* C29 (as claimed): over a channel that delivers a message only to a get of
\* the same channel name and tag, guest, host and arbiter all eventually return
\* from fit.
C29_EveryRoleReturns ==
    (tag_exact /\ \A c \in Clients : cli[c].kind # "peer") => <>AllReturned

\* ------------------------------------- FTL: the loss of the convergence check

\* the loss mask of outer round n was removed in that round
LossUnmaskedInRound(n) ==
    \E i \in DOMAIN ftl.removed :
        /\ ftl.removed[i][1] = "loss"
        /\ ftl.removed[i][2] = n

\* C31 (as claimed): when the decentralized guest reaches is_converge(loss) at the
\* end of an outer round, loss is not the None placeholder of line 344 but a
\* value remove_random_mask returned in that same outer round, whatever
\* local_iterations is (0 included).
C31_ConvergenceLossUnmasked ==
    AtConvergenceCheck =>
        /\ ftl.loss # None
        /\ LossUnmaskedInRound(ftl.n_iter_)

\* ----------------------------------------- FTL: fit called again on a guest

\* the messages of a round: components, gradients, loss, stop flag
RoundMessageNames ==
    {"guest_component_list", "host_component_list",
     "encrypt_guest_gradient", "decrypt_guest_gradient",
     "masked_enc_guest_gradients", "masked_dec_guest_gradients",
     "masked_enc_host_gradients", "masked_dec_host_gradients",
     "encrypt_loss", "masked_enc_loss", "masked_dec_loss",
     "is_stopped", "is_encrypted_ftl_stopped", "is_decentralized_enc_ftl_stopped"}

\* positions of the log written by the first fit call, and by the second
FirstCallLog == 1..(IF ftl.fits >= 2 THEN ftl.fit_log ELSE Len(flog))
SecondCallLog == IF ftl.fits >= 2 THEN (ftl.fit_log + 1)..Len(flog) ELSE {}

RoundMessages(positions) ==
    {i \in positions : flog[i].op \in {"send", "recv"}
                        /\ flog[i].name \in RoundMessageNames}

\* outer rounds a stretch of the log began: one guest_component_list each
RoundsBegun(positions) ==
    Cardinality({i \in positions : flog[i].op = "send"
                                    /\ flog[i].name = "guest_component_list"})

\* the second fit call is running or has returned
InSecondFit == ftl.fits = 2 /\ ftl.pc \notin {"param", "config_error", "created"}

\* C32: n_iter_ is 0 at construction and fit does not reset it. In a second fit
\* call on the same guest the loop began with n_iter_ equal to the number of
\* rounds of the first call, n_iter_ never falls below that, every round message
\* of the second call carries a tag that no round message of the first call
\* carried, and if the first call ended with n_iter_ = max_iter the second call
\* runs no round and sends or receives no component, gradient, loss or
\* stop-flag message.
C32_RefitContinuesRoundCounter ==
    /\ (ftl.pc = "created" /\ ftl.fits = 0) => ftl.n_iter_ = 0
    /\ InSecondFit =>
          /\ ftl.fit_n_iter = RoundsBegun(FirstCallLog)
          /\ ftl.n_iter_ >= ftl.fit_n_iter
          /\ \A j \in RoundMessages(SecondCallLog) :
                /\ flog[j].tag >= ftl.fit_n_iter
                /\ \A i \in RoundMessages(FirstCallLog) : flog[i].tag # flog[j].tag
          /\ ftl.fit_n_iter = ftl.max_iter =>
                /\ RoundMessages(SecondCallLog) = {}
                /\ RoundsBegun(SecondCallLog) = 0
                /\ ftl.n_iter_ = ftl.max_iter
                /\ ftl.pc \in {"wait_host_public_key", "wait_host_sample_indexes",
                              "loop", "done"}

\* C32 witness: the first call stopped after round 0 of two, and the second call
\* on the same guest ran its one round with tag 1 and returned
C32_Witness ==
    /\ InSecondFit /\ ftl.pc = "done"
    /\ ftl.max_iter = 2 /\ ftl.fit_n_iter = 1 /\ ftl.n_iter_ = 2
    /\ RoundsBegun(FirstCallLog) = 1
    /\ RoundsBegun(SecondCallLog) = 1
    /\ \E j \in RoundMessages(SecondCallLog) :
          flog[j].name = "guest_component_list" /\ flog[j].tag = 1

====
